---- MODULE Spec2Model ----
(***************************************************************************)
(* State-machine model of the authentication core of llm-app-poc:          *)
(*   src/auth/session_manager.py  (SessionManager)                         *)
(*   src/auth/password_reset.py   (PasswordResetManager)                   *)
(*   src/auth/two_factor.py       (TwoFactorManager)                       *)
(* Each manager is an object holding in-memory dictionaries.  A sequential *)
(* specification runs every method as one atomic action; a concurrent one  *)
(* splits the method under study at the points where a thread switch can   *)
(* fall between two accesses of the shared dictionaries.                   *)
(*                                                                         *)
(* Time is the wall clock read by datetime.utcnow(), in seconds.           *)
(* Values drawn from the secrets module (session ids, reset tokens, backup *)
(* codes, TOTP secrets, SMS codes) are modelled as fresh numbers taken     *)
(* from counters, and SHA-256 as an injective tagging of its argument.     *)
(***************************************************************************)
EXTENDS Integers, Sequences, FiniteSets, TLC

\* ---------------------------------------------------------------- bounds
MaxTicks == 1
MaxSessions == 3
MaxLongTicks == 2
MaxFewSessions == 2
MaxTokens == 3
MaxResetTicks == 2
MaxTwoFactorTicks == 1
MaxVerifyTicks == 1
MaxSmsTicks == 2
MaxSent == 2
MaxJwtTicks == 2
MaxJwtRefreshTicks == 2
MaxOutstanding == 3
NumJwtUsers == 2
NumTenants == 2
MaxSecrets == 2
MaxBatches == 2
MaxPresented == 2
NumOtpCodes == 2
NumTwoFactorUsers == 1
NumUsers == 2
NumThreads == 2
NumPasswords == 2
MaxRateTicks == 2
MaxRecorded == 6
MaxKeys == 2
MaxBlockTicks == 3
MaxOverLimit == 1
MaxFewTokens == 2

Users == 1..NumUsers
Threads == 1..NumThreads
TwoFactorUsers == 1..NumTwoFactorUsers
SessIds == 1..MaxSessions
FewSessIds == 1..MaxFewSessions
RawTokens == 1..MaxTokens
FewRawTokens == 1..MaxFewTokens
Passwords == 1..NumPasswords

\* ----------------------------------------------------- program constants
session_expire_hours == 168
max_sessions_per_user == 2
cleanup_retention_days == 30
token_expire_hours == 24
totp_interval == 30
sms_otp_expire_minutes == 5
backup_code_count == 10
access_token_expire_minutes == 30
refresh_token_expire_days == 7

Hours(h) == h * 3600
Days(d) == d * 86400
Minutes(m) == m * 60

NoTime == -1
NoSession == 0
NoToken == 0
NoUser == 0
NoSecret == 0
NoPhone == 0
NoBlock == -1
NoEmail == "None"
NoList == <<"None">>
NoJwt == [kind |-> "none", token |-> <<>>, args |-> <<>>]
NoCall == [user |-> 0, code |-> <<>>, method |-> "None"]

VARIABLES
    now,            \* datetime.utcnow()
    clockTicks,     \* number of clock advances so far
    sessions,       \* SessionManager._sessions: session_id -> SessionInfo
    user_sessions,  \* SessionManager._user_sessions: user_id -> list of ids
    nextSid,        \* next value of the random session id source
    lastOp,         \* the call that completed last, with its result
    pc,             \* per thread: the point its call has reached
    frame,          \* per thread: the local variables of its call
    tokens,         \* PasswordResetManager._tokens: token_hash -> record
    user_tokens,    \* PasswordResetManager._user_tokens: user_id -> token_hash
    nextToken,      \* next value of the random reset token source
    redeemed,       \* raw tokens a reset_password call has succeeded with
    configs,        \* TwoFactorManager._configs: user_id -> TwoFactorConfig
    sms_otps,       \* TwoFactorManager._sms_otps: user_id -> (code, expiry)
    nextSecret,     \* next value of pyotp.random_base32()
    nextBackup,     \* next value of the random backup code source
    nextSalt,       \* next salt of _hash_password: one per invocation
    users,          \* UserManager._users: user_id -> User
    limits,         \* RateLimiter._limits: key -> (attempts, first_attempt, blocked_until)
    found,          \* the record that check_rate_limit found under its key, when
                    \* it is the call that completed last
    failed_at,      \* per identifier: times of the failed login attempts recorded
                    \* since the last success or reset
    called,         \* the arguments of the verification call that completed last
    sent,           \* per user: the SMS OTPs sent, each with its time of sending
                    \* and whether a verification has accepted it
    issued,         \* the JWT created last, with the arguments of the call
    outstanding     \* the JWTs that callers have received and still hold

vars == <<now, clockTicks, sessions, user_sessions, nextSid, lastOp, pc, frame,
          tokens, user_tokens, nextToken, redeemed,
          configs, sms_otps, nextSecret, nextBackup, nextSalt, users, limits,
          found,
          failed_at, called, sent, issued, outstanding>>

sessVars == <<sessions, user_sessions, nextSid>>
threadVars == <<pc, frame>>
resetVars == <<tokens, user_tokens, nextToken, redeemed, nextSalt>>
tfVars == <<configs, sms_otps, nextSecret, nextBackup>>
userVars == <<users>>
rlVars == <<limits, found>>
obsVars == <<failed_at, called, sent>>
jwtVars == <<issued, outstanding>>

\* ------------------------------------------------------------- utilities
Range(f) == {f[x] : x \in DOMAIN f}

RECURSIVE SeqRemoveFirst(_, _)
\* list.remove(x): drops the first occurrence of x
SeqRemoveFirst(s, x) ==
    IF s = <<>> THEN <<>>
    ELSE IF Head(s) = x THEN Tail(s)
    ELSE <<Head(s)>> \o SeqRemoveFirst(Tail(s), x)

\* ============================================================== sessions
SessionInfo(u, t) ==
    [user_id |-> u,
     created_at |-> t,
     last_activity_at |-> t,
     expires_at |-> t + Hours(session_expire_hours),
     is_active |-> TRUE,
     invalidated_at |-> NoTime,
     invalidation_reason |-> "None"]

\* mutant: a session counts as expired at expires_at itself
is_expired_at_deadline(s, t) == t >= s.expires_at

is_expired(s, t) == t > s.expires_at

\* mutant: no early return for a session that is already inactive
invalidate_session_on_unguarded(S, sid, reason, t) ==
    IF sid \notin DOMAIN S THEN <<S, FALSE>>
    ELSE <<[S EXCEPT ![sid].is_active = FALSE,
                     ![sid].invalidated_at = t,
                     ![sid].invalidation_reason = reason], TRUE>>

\* invalidate_session on the dictionary S; the pair <<S', returned value>>
invalidate_session_on(S, sid, reason, t) ==
    IF sid \notin DOMAIN S THEN <<S, FALSE>>
    ELSE IF ~S[sid].is_active THEN <<S, FALSE>>
    ELSE <<[S EXCEPT ![sid].is_active = FALSE,
                     ![sid].invalidated_at = t,
                     ![sid].invalidation_reason = reason], TRUE>>

RECURSIVE InsertByActivity(_, _, _)
\* insertion that keeps equal keys in arrival order (list.sort is stable)
InsertByActivity(sorted, sid, S) ==
    IF sorted = <<>> THEN <<sid>>
    ELSE IF S[Head(sorted)].last_activity_at <= S[sid].last_activity_at
         THEN <<Head(sorted)>> \o InsertByActivity(Tail(sorted), sid, S)
         ELSE <<sid>> \o sorted

\* mutant: the sort is missing, the list stays in creation order
SortByActivity_unsorted(ids, S) == ids

RECURSIVE SortByActivity(_, _)
\* sessions.sort(key=lambda s: s.last_activity_at)
SortByActivity(ids, S) ==
    IF ids = <<>> THEN <<>>
    ELSE InsertByActivity(SortByActivity(SubSeq(ids, 1, Len(ids) - 1), S),
                          ids[Len(ids)], S)

ActiveOf(ids, S) ==
    SelectSeq(ids, LAMBDA sid : sid \in DOMAIN S /\ S[sid].is_active)

RECURSIVE InvalidateOldest(_, _, _, _)
\* for i in range(excess_count): invalidate_session(sessions[i], ...)
InvalidateOldest(S, sorted, excess, t) ==
    IF excess <= 0 \/ sorted = <<>> THEN S
    ELSE InvalidateOldest(
             invalidate_session_on(S, Head(sorted), "session_limit_exceeded", t)[1],
             Tail(sorted), excess - 1, t)

enforce_session_limit(S, US, u, t) ==
    LET session_ids == IF u \in DOMAIN US THEN US[u] ELSE <<>>
    IN  IF Len(session_ids) <= max_sessions_per_user THEN S
        ELSE LET sorted == SortByActivity(ActiveOf(session_ids, S), S)
                 excess_count == Len(sorted) - max_sessions_per_user
             IN  InvalidateOldest(S, sorted, excess_count, t)

TrackUserSession(US, u, sid) ==
    IF u \in DOMAIN US THEN [US EXCEPT ![u] = Append(@, sid)]
    ELSE US @@ (u :> <<sid>>)

create_session(u) ==
    /\ LET sid == nextSid
           S1 == sessions @@ (sid :> SessionInfo(u, now))
           US1 == TrackUserSession(user_sessions, u, sid)
       IN  /\ sessions' = enforce_session_limit(S1, US1, u, now)
           /\ user_sessions' = US1
           /\ nextSid' = nextSid + 1
           /\ lastOp' = [op |-> "create_session", ret |-> sid]
    /\ UNCHANGED <<now, clockTicks>>

validate_session(sid) ==
    /\ IF sid \notin DOMAIN sessions THEN
            /\ sessions' = sessions
            /\ lastOp' = [op |-> "validate_session", ret |-> NoSession]
       ELSE IF ~sessions[sid].is_active THEN
            /\ sessions' = sessions
            /\ lastOp' = [op |-> "validate_session", ret |-> NoSession]
       ELSE IF is_expired(sessions[sid], now) THEN
            /\ sessions' = invalidate_session_on(sessions, sid, "expired", now)[1]
            /\ lastOp' = [op |-> "validate_session", ret |-> NoSession]
       ELSE /\ sessions' = [sessions EXCEPT ![sid].last_activity_at = now]
            /\ lastOp' = [op |-> "validate_session", ret |-> sid]
    /\ UNCHANGED <<now, clockTicks, user_sessions, nextSid>>

invalidate_session(sid, reason) ==
    /\ LET r == invalidate_session_on(sessions, sid, reason, now)
       IN  /\ sessions' = r[1]
           /\ lastOp' = [op |-> "invalidate_session", ret |-> r[2]]
    /\ UNCHANGED <<now, clockTicks, user_sessions, nextSid>>

RECURSIVE InvalidateEach_no_exception(_, _, _, _, _)
\* mutant: the excepted session is not skipped
InvalidateEach_no_exception(S, ids, except, reason, t) ==
    IF ids = <<>> THEN <<S, 0>>
    ELSE LET r == invalidate_session_on(S, Head(ids), reason, t)
             rest == InvalidateEach_no_exception(r[1], Tail(ids), except, reason, t)
         IN  <<rest[1], rest[2] + (IF r[2] THEN 1 ELSE 0)>>

RECURSIVE InvalidateEach(_, _, _, _, _)
\* the loop of invalidate_all_user_sessions; the pair <<S', count>>
InvalidateEach(S, ids, except, reason, t) ==
    IF ids = <<>> THEN <<S, 0>>
    ELSE IF Head(ids) = except
         THEN InvalidateEach(S, Tail(ids), except, reason, t)
         ELSE LET r == invalidate_session_on(S, Head(ids), reason, t)
                  rest == InvalidateEach(r[1], Tail(ids), except, reason, t)
              IN  <<rest[1], rest[2] + (IF r[2] THEN 1 ELSE 0)>>

invalidate_all_user_sessions(u, except) ==
    /\ LET session_ids == IF u \in DOMAIN user_sessions
                          THEN user_sessions[u] ELSE <<>>
           r == InvalidateEach(sessions, session_ids, except, "logout_all", now)
       IN  /\ sessions' = r[1]
           /\ lastOp' = [op |-> "invalidate_all_user_sessions", ret |-> r[2]]
    /\ UNCHANGED <<now, clockTicks, user_sessions, nextSid>>

\* extend_hours argument; 0 stands for None
ExtendHours == {0}

\* mutant: an inactive session is refreshed like an active one
refresh_session_unguarded(sid, extend_hours) ==
    /\ IF sid \notin DOMAIN sessions THEN
            /\ sessions' = sessions
            /\ lastOp' = [op |-> "refresh_session", ret |-> FALSE]
       ELSE /\ sessions' =
                 [sessions EXCEPT
                    ![sid].expires_at =
                        IF extend_hours # 0 THEN now + Hours(extend_hours)
                        ELSE now + Hours(session_expire_hours),
                    ![sid].last_activity_at = now]
            /\ lastOp' = [op |-> "refresh_session", ret |-> TRUE]
    /\ UNCHANGED <<now, clockTicks, user_sessions, nextSid>>

refresh_session(sid, extend_hours) ==
    /\ IF sid \notin DOMAIN sessions \/ ~sessions[sid].is_active THEN
            /\ sessions' = sessions
            /\ lastOp' = [op |-> "refresh_session", ret |-> FALSE]
       ELSE /\ sessions' =
                 [sessions EXCEPT
                    ![sid].expires_at =
                        IF extend_hours # 0 THEN now + Hours(extend_hours)
                        ELSE now + Hours(session_expire_hours),
                    ![sid].last_activity_at = now]
            /\ lastOp' = [op |-> "refresh_session", ret |-> TRUE]
    /\ UNCHANGED <<now, clockTicks, user_sessions, nextSid>>

should_remove(s, t) ==
    LET cleanup_threshold == t - Days(cleanup_retention_days)
    IN  \/ is_expired(s, t) /\ s.created_at < cleanup_threshold
        \/ /\ ~s.is_active
           /\ s.invalidated_at # NoTime
           /\ s.invalidated_at < cleanup_threshold

cleanup_expired_sessions ==
    /\ LET session_ids_to_remove ==
               {sid \in DOMAIN sessions : should_remove(sessions[sid], now)}
           US1 == [u \in DOMAIN user_sessions |->
                      SelectSeq(user_sessions[u],
                                LAMBDA sid : sid \notin session_ids_to_remove)]
       IN  /\ sessions' = [sid \in DOMAIN sessions \ session_ids_to_remove |->
                              sessions[sid]]
           /\ user_sessions' = [u \in {v \in DOMAIN US1 : US1[v] # <<>>
                                          \/ US1[v] = user_sessions[v]} |-> US1[u]]
           /\ lastOp' = [op |-> "cleanup_expired_sessions", ret |-> Cardinality(session_ids_to_remove)]
    /\ UNCHANGED <<now, clockTicks, nextSid>>

\* ------------------------------------------- create_session, step by step
\* A thread running create_session can be preempted between any two accesses
\* of _sessions and _user_sessions; each action below is one such access.
NoFrame == [user |-> 0, sid |-> 0]

\* lines 137-162: the record is built and stored under its fresh id
cs_store(t, u) ==
    /\ pc[t] = "idle"
    /\ sessions' = sessions @@ (nextSid :> SessionInfo(u, now))
    /\ nextSid' = nextSid + 1
    /\ frame' = [frame EXCEPT ![t] = [user |-> u, sid |-> nextSid]]
    /\ pc' = [pc EXCEPT ![t] = "track_check"]
    /\ UNCHANGED <<now, clockTicks, user_sessions, lastOp>>

\* line 165: if user_id not in self._user_sessions
cs_track_check(t) ==
    /\ pc[t] = "track_check"
    /\ pc' = [pc EXCEPT ![t] = IF frame[t].user \notin DOMAIN user_sessions
                               THEN "track_init" ELSE "track_append"]
    /\ UNCHANGED <<now, clockTicks, sessVars, lastOp, frame>>

\* line 166: self._user_sessions[user_id] = [] ; a thread that already
\* holds the previous list object keeps reading that object
cs_track_init(t) ==
    /\ pc[t] = "track_init"
    /\ LET u == frame[t].user
       IN  /\ user_sessions' =
                 IF u \in DOMAIN user_sessions
                 THEN [user_sessions EXCEPT ![u] = <<>>]
                 ELSE user_sessions @@ (u :> <<>>)
           /\ frame' = [o \in Threads |->
                 IF /\ o # t
                    /\ pc[o] = "enforce_scan"
                    /\ frame[o].user = u
                    /\ frame[o].live
                 THEN [frame[o] EXCEPT !.live = FALSE,
                                       !.session_ids = user_sessions[u]]
                 ELSE frame[o]]
    /\ pc' = [pc EXCEPT ![t] = "track_append"]
    /\ UNCHANGED <<now, clockTicks, sessions, nextSid, lastOp>>

\* line 168: self._user_sessions[user_id].append(session_id)
cs_track_append(t) ==
    /\ pc[t] = "track_append"
    /\ user_sessions' = [user_sessions EXCEPT ![frame[t].user] =
                             Append(@, frame[t].sid)]
    /\ pc' = [pc EXCEPT ![t] = "enforce_len"]
    /\ UNCHANGED <<now, clockTicks, sessions, nextSid, lastOp, frame>>

\* lines 422-425: the list is fetched and its length tested
cs_enforce_len(t) ==
    /\ pc[t] = "enforce_len"
    /\ IF Len(user_sessions[frame[t].user]) <= max_sessions_per_user
       THEN /\ pc' = [pc EXCEPT ![t] = "return"]
            /\ frame' = frame
       ELSE /\ pc' = [pc EXCEPT ![t] = "enforce_scan"]
            /\ frame' = [frame EXCEPT ![t] =
                  [user |-> frame[t].user, sid |-> frame[t].sid,
                   live |-> TRUE, session_ids |-> <<>>, i |-> 1,
                   found |-> <<>>]]
    /\ UNCHANGED <<now, clockTicks, sessVars, lastOp>>

ScannedList(t) ==
    IF frame[t].live THEN user_sessions[frame[t].user] ELSE frame[t].session_ids

\* lines 429-432: one turn of the loop over the list, or its end;
\* line 434: the sort, which reads every last_activity_at
cs_enforce_scan(t) ==
    /\ pc[t] = "enforce_scan"
    /\ LET ids == ScannedList(t)
           i == frame[t].i
       IN  IF i <= Len(ids)
           THEN /\ frame' = [frame EXCEPT ![t].i = i + 1,
                                          ![t].found =
                                 IF ids[i] \in DOMAIN sessions
                                    /\ sessions[ids[i]].is_active
                                 THEN Append(@, ids[i]) ELSE @]
                /\ pc' = pc
           ELSE /\ frame' = [frame EXCEPT ![t] =
                      [user |-> frame[t].user, sid |-> frame[t].sid,
                       sorted |-> SortByActivity(frame[t].found, sessions),
                       excess_count |-> Len(frame[t].found) - max_sessions_per_user,
                       i |-> 1]]
                /\ pc' = [pc EXCEPT ![t] = "enforce_invalidate"]
    /\ UNCHANGED <<now, clockTicks, sessVars, lastOp>>

\* lines 438-442: one turn of the loop that invalidates the oldest sessions
cs_enforce_invalidate(t) ==
    /\ pc[t] = "enforce_invalidate"
    /\ IF frame[t].i <= frame[t].excess_count
       THEN /\ sessions' = invalidate_session_on(
                               sessions, frame[t].sorted[frame[t].i],
                               "session_limit_exceeded", now)[1]
            /\ frame' = [frame EXCEPT ![t].i = @ + 1]
            /\ pc' = pc
       ELSE /\ sessions' = sessions
            /\ frame' = [frame EXCEPT ![t] =
                             [user |-> frame[t].user, sid |-> frame[t].sid]]
            /\ pc' = [pc EXCEPT ![t] = "return"]
    /\ UNCHANGED <<now, clockTicks, user_sessions, nextSid, lastOp>>

\* line 178: return session
cs_return(t) ==
    /\ pc[t] = "return"
    /\ lastOp' = [op |-> "create_session", ret |-> frame[t].sid]
    /\ frame' = [frame EXCEPT ![t] = NoFrame]
    /\ pc' = [pc EXCEPT ![t] = "idle"]
    /\ UNCHANGED <<now, clockTicks, sessVars>>

\* ======================================================== password reset
\* hashlib.sha256(token.encode()).hexdigest()
hash_token(raw) == <<"sha256", raw>>

PasswordResetToken(u, t) ==
    [user_id |-> u,
     created_at |-> t,
     expires_at |-> t + Hours(token_expire_hours),
     used |-> FALSE,
     used_at |-> NoTime]

\* mutant: the previous token only leaves the index, it is not marked used
invalidate_user_tokens_index_only(T, UT, u, t) ==
    IF u \notin DOMAIN UT THEN <<T, UT, FALSE>>
    ELSE <<T, [v \in DOMAIN UT \ {u} |-> UT[v]], TRUE>>

\* _invalidate_user_tokens; the triple <<_tokens', _user_tokens', returned value>>
invalidate_user_tokens(T, UT, u, t) ==
    IF u \notin DOMAIN UT THEN <<T, UT, FALSE>>
    ELSE LET token_hash == UT[u]
             T1 == IF token_hash \in DOMAIN T
                   THEN [T EXCEPT ![token_hash].used = TRUE,
                                  ![token_hash].used_at = t]
                   ELSE T
         IN  <<T1, [v \in DOMAIN UT \ {u} |-> UT[v]], TRUE>>

\* mutant: a failed dispatch takes the stored token back
request_password_reset_rolled_back(u, email_ok) ==
    /\ LET inv == invalidate_user_tokens(tokens, user_tokens, u, now)
           token_hash == hash_token(nextToken)
       IN  /\ tokens' = IF email_ok
                        THEN (token_hash :> PasswordResetToken(u, now)) @@ inv[1]
                        ELSE inv[1]
           /\ user_tokens' = IF email_ok THEN (u :> token_hash) @@ inv[2]
                             ELSE inv[2]
    /\ nextToken' = nextToken + 1
    /\ lastOp' = [op |-> "request_password_reset", ret |-> email_ok]
    /\ UNCHANGED <<now, clockTicks, redeemed, nextSalt>>

\* email_ok is what EmailProvider.send_email answers
request_password_reset(u, email_ok) ==
    /\ LET inv == invalidate_user_tokens(tokens, user_tokens, u, now)
           token_hash == hash_token(nextToken)
       IN  /\ tokens' = (token_hash :> PasswordResetToken(u, now)) @@ inv[1]
           /\ user_tokens' = (u :> token_hash) @@ inv[2]
    /\ nextToken' = nextToken + 1
    /\ lastOp' = [op |-> "request_password_reset", ret |-> email_ok]
    /\ UNCHANGED <<now, clockTicks, redeemed, nextSalt>>

\* mutant: the expiry of the token is not looked at
validated_token_unexpiring(T, raw, t) ==
    LET token_hash == hash_token(raw)
    IN  IF token_hash \notin DOMAIN T THEN NoToken
        ELSE IF T[token_hash].used THEN NoToken
        ELSE raw

\* validate_reset_token as a function of the stores: the raw token whose
\* record is returned, or NoToken for None
validated_token(T, raw, t) ==
    LET token_hash == hash_token(raw)
    IN  IF token_hash \notin DOMAIN T THEN NoToken
        ELSE IF T[token_hash].used THEN NoToken
        ELSE IF t > T[token_hash].expires_at THEN NoToken
        ELSE raw

validate_reset_token(raw) ==
    /\ lastOp' = [op |-> "validate_reset_token",
                  ret |-> validated_token(tokens, raw, now)]
    /\ UNCHANGED <<now, clockTicks, resetVars>>

\* mutant: the token is not marked used
redeem_token_unmarked(T, token_hash, t) == T

\* lines 203-205: token_data.used = True; token_data.used_at = utcnow()
redeem_token(T, token_hash, t) ==
    [T EXCEPT ![token_hash].used = TRUE, ![token_hash].used_at = t]

reset_password(raw) ==
    /\ IF validated_token(tokens, raw, now) = NoToken THEN
            /\ lastOp' = [op |-> "reset_password", ret |-> NoUser]
            /\ UNCHANGED resetVars
       ELSE LET token_hash == hash_token(raw)
                u == tokens[token_hash].user_id
            IN  /\ tokens' = redeem_token(tokens, token_hash, now)
                /\ user_tokens' = [v \in DOMAIN user_tokens \ {u} |->
                                       user_tokens[v]]
                /\ redeemed' = redeemed \cup {raw}
                /\ nextToken' = nextToken
                /\ nextSalt' = nextSalt + 1
                /\ lastOp' = [op |-> "reset_password", ret |-> u]
    /\ UNCHANGED <<now, clockTicks>>

cancel_reset_request(u) ==
    /\ LET inv == invalidate_user_tokens(tokens, user_tokens, u, now)
       IN  /\ tokens' = inv[1]
           /\ user_tokens' = inv[2]
           /\ lastOp' = [op |-> "cancel_reset_request", ret |-> inv[3]]
    /\ UNCHANGED <<now, clockTicks, nextToken, redeemed, nextSalt>>

cleanup_expired_tokens ==
    /\ LET expired_hashes == {h \in DOMAIN tokens : now > tokens[h].expires_at}
       IN  /\ tokens' = [h \in DOMAIN tokens \ expired_hashes |-> tokens[h]]
           /\ user_tokens' =
                 [v \in {w \in DOMAIN user_tokens :
                            user_tokens[w] \notin expired_hashes} |->
                     user_tokens[v]]
           /\ lastOp' = [op |-> "cleanup_expired_tokens",
                         ret |-> Cardinality(expired_hashes)]
    /\ UNCHANGED <<now, clockTicks, nextToken, redeemed, nextSalt>>

\* ------------------------------------------- reset_password, step by step
\* A thread running reset_password can be preempted between
\* validate_reset_token and the marking of the token record: the password is
\* hashed in between, and no lock is held.

\* lines 194-197: token_data = self.validate_reset_token(token)
rp_validate(t, raw) ==
    /\ pc[t] = "idle"
    /\ LET valid == validated_token(tokens, raw, now) # NoToken
       IN  /\ frame' = [frame EXCEPT ![t] =
                 [user |-> IF valid THEN tokens[hash_token(raw)].user_id
                           ELSE NoUser,
                  token |-> raw,
                  result |-> NoUser]]
           /\ pc' = [pc EXCEPT ![t] = IF valid THEN "rp_mark" ELSE "rp_done"]
    /\ UNCHANGED <<now, clockTicks, resetVars, lastOp>>

\* lines 200-216: hash the password, mark the record used, drop the index
\* entry, return token_data.user_id
rp_mark(t) ==
    /\ pc[t] = "rp_mark"
    /\ LET u == frame[t].user
           raw == frame[t].token
       IN  /\ tokens' = redeem_token(tokens, hash_token(raw), now)
           /\ user_tokens' = [v \in DOMAIN user_tokens \ {u} |-> user_tokens[v]]
           /\ redeemed' = redeemed \cup {raw}
           /\ frame' = [frame EXCEPT ![t].result = u]
    /\ nextSalt' = nextSalt + 1
    /\ pc' = [pc EXCEPT ![t] = "rp_done"]
    /\ UNCHANGED <<now, clockTicks, nextToken, lastOp>>

\* the call has returned; the thread is free for another call
rp_return(t) ==
    /\ pc[t] = "rp_done"
    /\ pc' = [pc EXCEPT ![t] = "idle"]
    /\ frame' = [frame EXCEPT ![t] = NoFrame]
    /\ lastOp' = [op |-> "reset_password", ret |-> frame[t].result]
    /\ UNCHANGED <<now, clockTicks, resetVars>>

ResetSteps == {1, Hours(token_expire_hours)}

\* ====================================================== credential store
\* _hash_password draws a fresh salt on every invocation
hash_password(password, salt) == <<"pbkdf2_sha256", password, salt>>

User(password_hash) == [password_hash |-> password_hash, is_active |-> TRUE]

\* one email address per user: the user stands for its email
create_user(u, password) ==
    /\ IF u \in DOMAIN users THEN
            /\ lastOp' = [op |-> "create_user", ret |-> "ValueError"]
            /\ UNCHANGED <<users, nextSalt>>
       ELSE /\ users' = (u :> User(hash_password(password, nextSalt))) @@ users
            /\ nextSalt' = nextSalt + 1
            /\ lastOp' = [op |-> "create_user", ret |-> "User"]
    /\ UNCHANGED <<now, clockTicks, tokens, user_tokens, nextToken, redeemed>>

\* UserManager.request_password_reset: an unknown email is answered True
user_request_password_reset(u, email_ok) ==
    IF u \notin DOMAIN users THEN
        /\ lastOp' = [op |-> "user_request_password_reset", ret |-> TRUE]
        /\ UNCHANGED <<now, clockTicks, resetVars>>
    ELSE request_password_reset(u, email_ok)

reset_password_with_token(raw, new_password) ==
    /\ IF validated_token(tokens, raw, now) = NoToken THEN
            /\ lastOp' = [op |-> "reset_password_with_token", ret |-> FALSE]
            /\ UNCHANGED <<resetVars, users>>
       ELSE LET token_hash == hash_token(raw)
                u == tokens[token_hash].user_id
            IN  /\ tokens' = redeem_token(tokens, token_hash, now)
                /\ user_tokens' = [v \in DOMAIN user_tokens \ {u} |->
                                       user_tokens[v]]
                /\ redeemed' = redeemed \cup {raw}
                /\ nextToken' = nextToken
                /\ IF u \notin DOMAIN users THEN
                        /\ nextSalt' = nextSalt + 1
                        /\ users' = users
                        /\ lastOp' = [op |-> "reset_password_with_token",
                                      ret |-> FALSE]
                   ELSE /\ nextSalt' = nextSalt + 2
                        /\ users' = [users EXCEPT ![u].password_hash =
                                        hash_password(new_password, nextSalt + 1)]
                        /\ lastOp' = [op |-> "reset_password_with_token",
                                      ret |-> TRUE]
    /\ UNCHANGED <<now, clockTicks>>

\* ========================================================== rate limiter
\* RateLimiter.limits: the configuration of each limit type
LimitConfigs ==
    [t \in {"login", "2fa", "password_reset", "otp_send", "api_call"} |->
        CASE t = "login" ->
               [max_attempts |-> 5, window_seconds |-> 900, block_seconds |-> 3600]
          [] t = "2fa" ->
               [max_attempts |-> 3, window_seconds |-> 300, block_seconds |-> 1800]
          [] t = "password_reset" ->
               [max_attempts |-> 3, window_seconds |-> 3600, block_seconds |-> 7200]
          [] t = "otp_send" ->
               [max_attempts |-> 5, window_seconds |-> 3600, block_seconds |-> 3600]
          [] t = "api_call" ->
               [max_attempts |-> 100, window_seconds |-> 60, block_seconds |-> 300]]

\* key = f"{limit_type}:{identifier}"
LimitKey(identifier, limit_type) == <<limit_type, identifier>>

\* the tuple (attempts, first_attempt, blocked_until) stored under a key
LimitRecord(attempts, first_attempt, blocked_until) ==
    [attempts |-> attempts, first_attempt |-> first_attempt,
     blocked_until |-> blocked_until]

\* no record under the key
NoRecord == LimitRecord(0, NoTime, NoBlock)

\* lines 96-97 and 156-157: get or create the limit record
WithLimitRecord(L, key, t) ==
    IF key \in DOMAIN L THEN L ELSE (key :> LimitRecord(0, t, NoBlock)) @@ L

\* mutant: an elapsed window is not reset
check_rate_limit_on_keeping_window(L, identifier, limit_type, t) ==
    IF limit_type \notin DOMAIN LimitConfigs THEN <<L, <<"allowed", 0>>>>
    ELSE
      LET config == LimitConfigs[limit_type]
          key == LimitKey(identifier, limit_type)
          L1 == WithLimitRecord(L, key, t)
          rec == L1[key]
          remaining == config.max_attempts - rec.attempts
      IN  IF rec.blocked_until # NoBlock /\ t < rec.blocked_until
          THEN <<L1, <<"RateLimitExceeded", rec.blocked_until - t>>>>
          ELSE IF remaining <= 0
          THEN <<[L1 EXCEPT ![key] =
                     LimitRecord(rec.attempts, rec.first_attempt,
                                 t + config.block_seconds)],
                 <<"RateLimitExceeded", config.block_seconds>>>>
          ELSE <<L1, <<"allowed", remaining>>>>

\* check_rate_limit on the store: the pair <<_limits', outcome>>, the outcome
\* <<"allowed", remaining>> or <<"RateLimitExceeded", retry_after>>
check_rate_limit_on(L, identifier, limit_type, t) ==
    IF limit_type \notin DOMAIN LimitConfigs THEN <<L, <<"allowed", 0>>>>
    ELSE
      LET config == LimitConfigs[limit_type]
          key == LimitKey(identifier, limit_type)
          L1 == WithLimitRecord(L, key, t)
          rec == L1[key]
          window_expired == t - rec.first_attempt > config.window_seconds
          L2 == IF window_expired
                THEN [L1 EXCEPT ![key] = LimitRecord(0, t, NoBlock)]
                ELSE L1
          attempts == IF window_expired THEN 0 ELSE rec.attempts
          remaining == config.max_attempts - attempts
      IN  IF rec.blocked_until # NoBlock /\ t < rec.blocked_until
          THEN <<L1, <<"RateLimitExceeded", rec.blocked_until - t>>>>
          ELSE IF remaining <= 0
          THEN <<[L2 EXCEPT ![key] =
                     LimitRecord(attempts, rec.first_attempt,
                                 t + config.block_seconds)],
                 <<"RateLimitExceeded", config.block_seconds>>>>
          ELSE <<L2, <<"allowed", remaining>>>>

check_rate_limit(identifier, limit_type) ==
    /\ LET r == check_rate_limit_on(limits, identifier, limit_type, now)
       IN  /\ limits' = r[1]
           /\ lastOp' = [op |-> "check_rate_limit", ret |-> r[2]]
    /\ UNCHANGED <<now, clockTicks>>

\* mutant: a success is counted like a failure for every limit type
record_attempt_on_never_resetting(L, identifier, limit_type, success, t) ==
    IF limit_type \notin DOMAIN LimitConfigs THEN <<L, 0>>
    ELSE
      LET config == LimitConfigs[limit_type]
          key == LimitKey(identifier, limit_type)
          L1 == WithLimitRecord(L, key, t)
          rec == L1[key]
      IN  <<[L1 EXCEPT ![key] =
                LimitRecord(rec.attempts + 1, rec.first_attempt,
                            rec.blocked_until)],
            config.max_attempts - (rec.attempts + 1)>>

\* mutant: recording an attempt writes the record back without its block
record_attempt_on_unblocking(L, identifier, limit_type, success, t) ==
    IF limit_type \notin DOMAIN LimitConfigs THEN <<L, 0>>
    ELSE
      LET config == LimitConfigs[limit_type]
          key == LimitKey(identifier, limit_type)
          L1 == WithLimitRecord(L, key, t)
          rec == L1[key]
      IN  IF success /\ limit_type \in {"login", "2fa"}
          THEN <<[L1 EXCEPT ![key] = LimitRecord(0, t, NoBlock)],
                 config.max_attempts>>
          ELSE <<[L1 EXCEPT ![key] =
                     LimitRecord(rec.attempts + 1, rec.first_attempt, NoBlock)],
                 config.max_attempts - (rec.attempts + 1)>>

\* record_attempt on the store: the pair <<_limits', remaining attempts>>
record_attempt_on(L, identifier, limit_type, success, t) ==
    IF limit_type \notin DOMAIN LimitConfigs THEN <<L, 0>>
    ELSE
      LET config == LimitConfigs[limit_type]
          key == LimitKey(identifier, limit_type)
          L1 == WithLimitRecord(L, key, t)
          rec == L1[key]
      IN  IF success /\ limit_type \in {"login", "2fa"}
          THEN <<[L1 EXCEPT ![key] = LimitRecord(0, t, NoBlock)],
                 config.max_attempts>>
          ELSE <<[L1 EXCEPT ![key] =
                     LimitRecord(rec.attempts + 1, rec.first_attempt,
                                 rec.blocked_until)],
                 config.max_attempts - (rec.attempts + 1)>>

record_attempt(identifier, limit_type, success) ==
    /\ LET r == record_attempt_on(limits, identifier, limit_type, success, now)
       IN  /\ limits' = r[1]
           /\ lastOp' = [op |-> "record_attempt", ret |-> r[2]]
    /\ UNCHANGED <<now, clockTicks>>

\* RateLimiter.reset
reset(identifier, limit_type) ==
    /\ limits' = [k \in DOMAIN limits \ {LimitKey(identifier, limit_type)} |->
                     limits[k]]
    /\ lastOp' = [op |-> "reset", ret |-> "None"]
    /\ UNCHANGED <<now, clockTicks>>

\* get_status reads only; the dictionary it returns
status_of(L, identifier, limit_type, t) ==
    IF limit_type \notin DOMAIN LimitConfigs THEN "{}"
    ELSE
      LET config == LimitConfigs[limit_type]
          key == LimitKey(identifier, limit_type)
          fresh == [attempts |-> 0, remaining |-> config.max_attempts,
                    blocked |-> FALSE, retry_after |-> 0]
      IN  IF key \notin DOMAIN L THEN fresh
          ELSE IF t - L[key].first_attempt > config.window_seconds THEN fresh
          ELSE LET blocked == L[key].blocked_until # NoBlock
                              /\ t < L[key].blocked_until
                   left == config.max_attempts - L[key].attempts
               IN  [attempts |-> L[key].attempts,
                    remaining |-> IF left > 0 THEN left ELSE 0,
                    blocked |-> blocked,
                    retry_after |-> IF blocked THEN L[key].blocked_until - t
                                    ELSE 0]

get_status(identifier, limit_type) ==
    /\ lastOp' = [op |-> "get_status",
                  ret |-> status_of(limits, identifier, limit_type, now)]
    /\ UNCHANGED <<now, clockTicks, limits>>

\* mutant: a record whose window is over is removed whether blocked or not
cleanup_expired_ignoring_blocks ==
    /\ LET expired_keys ==
             {k \in DOMAIN limits :
                \/ k[1] \notin DOMAIN LimitConfigs
                \/ now - limits[k].first_attempt
                     > LimitConfigs[k[1]].window_seconds}
       IN  /\ limits' = [k \in DOMAIN limits \ expired_keys |-> limits[k]]
           /\ lastOp' = [op |-> "cleanup_expired",
                         ret |-> Cardinality(expired_keys)]
    /\ UNCHANGED <<now, clockTicks>>

\* cleanup_expired: window over and not blocked any more
cleanup_expired ==
    /\ LET expired_keys ==
             {k \in DOMAIN limits :
                \/ k[1] \notin DOMAIN LimitConfigs
                \/ /\ now - limits[k].first_attempt
                        > LimitConfigs[k[1]].window_seconds
                   /\ \/ limits[k].blocked_until = NoBlock
                      \/ now > limits[k].blocked_until}
       IN  /\ limits' = [k \in DOMAIN limits \ expired_keys |-> limits[k]]
           /\ lastOp' = [op |-> "cleanup_expired",
                         ret |-> Cardinality(expired_keys)]
    /\ UNCHANGED <<now, clockTicks>>

Identifiers == {1}
LimitTypes == {"login", "2fa", "password_reset"}
AnyLimitTypes == LimitTypes \cup {"unknown"}
RateSteps == {1, 900, 3600}

\* a call on this key does not take the store beyond MaxKeys records
KeyInBounds(identifier, limit_type) ==
    \/ limit_type \notin DOMAIN LimitConfigs
    \/ LimitKey(identifier, limit_type) \in DOMAIN limits
    \/ Cardinality(DOMAIN limits) < MaxKeys

\* the attempts recorded under a key so far
Recorded(identifier, limit_type) ==
    IF LimitKey(identifier, limit_type) \in DOMAIN limits
    THEN limits[LimitKey(identifier, limit_type)].attempts
    ELSE 0

\* ------------------------------------------- record_attempt, step by step
\* SimpleRateLimiter holds no lock: between reading the record (line 159) and
\* writing it back (line 169) another thread's record_attempt can run.

\* lines 151-159: create the record if absent, read it into the locals
ra_read(t, identifier, limit_type) ==
    /\ pc[t] = "idle"
    /\ LET key == LimitKey(identifier, limit_type)
           L1 == WithLimitRecord(limits, key, now)
       IN  /\ limits' = L1
           /\ frame' = [frame EXCEPT ![t] =
                 [identifier |-> identifier,
                  limit_type |-> limit_type,
                  attempts |-> L1[key].attempts,
                  first_attempt |-> L1[key].first_attempt,
                  blocked_until |-> L1[key].blocked_until]]
    /\ pc' = [pc EXCEPT ![t] = "ra_write"]
    /\ UNCHANGED <<now, clockTicks, lastOp>>

\* lines 168-169: attempts += 1, store the locals under the key
ra_write(t) ==
    /\ pc[t] = "ra_write"
    /\ LET key == LimitKey(frame[t].identifier, frame[t].limit_type)
           rec == LimitRecord(frame[t].attempts + 1, frame[t].first_attempt,
                              frame[t].blocked_until)
       IN  limits' = (key :> rec) @@ limits
    /\ frame' = [frame EXCEPT ![t].attempts = @ + 1]
    /\ pc' = [pc EXCEPT ![t] = "ra_done"]
    /\ UNCHANGED <<now, clockTicks, lastOp>>

\* lines 171-178: return max_attempts - attempts
ra_return(t) ==
    /\ pc[t] = "ra_done"
    /\ pc' = [pc EXCEPT ![t] = "idle"]
    /\ frame' = [frame EXCEPT ![t] = NoFrame]
    /\ lastOp' = [op |-> "record_attempt",
                  ret |-> LimitConfigs[frame[t].limit_type].max_attempts
                            - frame[t].attempts]
    /\ UNCHANGED <<now, clockTicks, limits>>

\* ============================================================ JWT handler
\* JWTConfig: the key and the defaults of the other fields
secret_key == "your-secret-key-change-in-production"
algorithm == "HS256"
issuer == "llm-app-saas"
audience == "llm-app-api"

\* `roles or []`: None and the empty list both give the empty list
OrEmpty(list) == IF list = NoList THEN <<>> ELSE list

\* jwt.encode: the payload, signed with the key under the algorithm
jwt_encode(claims, key, alg) == [payload |-> claims, key |-> key, alg |-> alg]

\* mutant: the roles are left out of the token
AccessClaims_dropping_roles(user_id, tenant_id, email, roles, permissions, t) ==
    [sub |-> user_id,
     tenant_id |-> tenant_id,
     email |-> email,
     roles |-> <<>>,
     permissions |-> OrEmpty(permissions),
     exp |-> t + Minutes(access_token_expire_minutes),
     iat |-> t,
     iss |-> issuer,
     aud |-> audience,
     token_type |-> "access"]

\* the claims of an access token created at time t
AccessClaims(user_id, tenant_id, email, roles, permissions, t) ==
    [sub |-> user_id,
     tenant_id |-> tenant_id,
     email |-> email,
     roles |-> OrEmpty(roles),
     permissions |-> OrEmpty(permissions),
     exp |-> t + Minutes(access_token_expire_minutes),
     iat |-> t,
     iss |-> issuer,
     aud |-> audience,
     token_type |-> "access"]

\* the claims of a refresh token created at time t
RefreshClaims(user_id, tenant_id, t) ==
    [sub |-> user_id,
     tenant_id |-> tenant_id,
     exp |-> t + Days(refresh_token_expire_days),
     iat |-> t,
     iss |-> issuer,
     aud |-> audience,
     token_type |-> "refresh"]

create_access_token(user_id, tenant_id, email, roles, permissions) ==
    /\ issued' = [kind |-> "access",
                  token |-> jwt_encode(AccessClaims(user_id, tenant_id, email,
                                                    roles, permissions, now),
                                       secret_key, algorithm),
                  args |-> [user_id |-> user_id, tenant_id |-> tenant_id,
                            email |-> email, roles |-> roles,
                            permissions |-> permissions]]
    /\ lastOp' = [op |-> "create_access_token", ret |-> "token"]
    /\ UNCHANGED <<now, clockTicks>>

create_refresh_token(user_id, tenant_id) ==
    /\ issued' = [kind |-> "refresh",
                  token |-> jwt_encode(RefreshClaims(user_id, tenant_id, now),
                                       secret_key, algorithm),
                  args |-> [user_id |-> user_id, tenant_id |-> tenant_id]]
    /\ lastOp' = [op |-> "create_refresh_token", ret |-> "token"]
    /\ UNCHANGED <<now, clockTicks>>

\* mutant: a token is accepted for a minute after its expiry
jwt_decode_with_leeway(token, key, alg, aud, iss, t) ==
    IF token.key # key \/ token.alg # alg
    THEN <<"InvalidSignatureError", <<>>>>
    ELSE IF token.payload.iat > t THEN <<"ImmatureSignatureError", <<>>>>
    ELSE IF token.payload.exp + 60 <= t THEN <<"ExpiredSignatureError", <<>>>>
    ELSE IF token.payload.iss # iss THEN <<"InvalidIssuerError", <<>>>>
    ELSE IF token.payload.aud # aud THEN <<"InvalidAudienceError", <<>>>>
    ELSE <<"ok", token.payload>>

\* jwt.decode at time t: the pair <<"ok", payload>>, or the exception raised
\* with an empty payload
jwt_decode(token, key, alg, aud, iss, t) ==
    IF token.key # key \/ token.alg # alg
    THEN <<"InvalidSignatureError", <<>>>>
    ELSE IF token.payload.iat > t THEN <<"ImmatureSignatureError", <<>>>>
    ELSE IF token.payload.exp <= t THEN <<"ExpiredSignatureError", <<>>>>
    ELSE IF token.payload.iss # iss THEN <<"InvalidIssuerError", <<>>>>
    ELSE IF token.payload.aud # aud THEN <<"InvalidAudienceError", <<>>>>
    ELSE <<"ok", token.payload>>

\* TokenClaims(**payload): absent fields take their defaults
TokenClaims(payload) ==
    [sub |-> payload.sub,
     tenant_id |-> payload.tenant_id,
     email |-> IF "email" \in DOMAIN payload THEN payload.email ELSE NoEmail,
     roles |-> IF "roles" \in DOMAIN payload THEN payload.roles ELSE <<>>,
     permissions |-> IF "permissions" \in DOMAIN payload
                     THEN payload.permissions ELSE <<>>,
     exp |-> payload.exp,
     iat |-> payload.iat,
     iss |-> payload.iss,
     aud |-> payload.aud,
     token_type |-> payload.token_type]

\* verify_token at time t: the pair <<"ok", claims>>, or the exception raised
verify_token_at(token, t) ==
    LET decoded == jwt_decode(token, secret_key, algorithm, audience, issuer, t)
    IN  IF decoded[1] = "ok" THEN <<"ok", TokenClaims(decoded[2])>>
        ELSE decoded

verify_token(token) ==
    /\ lastOp' = [op |-> "verify_token", ret |-> verify_token_at(token, now)]
    /\ UNCHANGED <<now, clockTicks, issued>>

\* the token signed again by someone who does not hold the key
Forged(token) == [token EXCEPT !.key = "another-key"]

\* mutant: the type of the token presented is not looked at
refresh_access_token_any_type(token) ==
    LET verified == verify_token_at(token, now)
        claims == verified[2]
    IN  /\ IF verified[1] # "ok"
           THEN /\ lastOp' = [op |-> "refresh_access_token", ret |-> verified]
                /\ UNCHANGED issued
           ELSE LET new_access_token ==
                        jwt_encode(AccessClaims(claims.sub, claims.tenant_id,
                                                claims.email, claims.roles,
                                                claims.permissions, now),
                                   secret_key, algorithm)
                IN  /\ issued' = [kind |-> "access",
                                  token |-> new_access_token,
                                  args |-> [user_id |-> claims.sub,
                                            tenant_id |-> claims.tenant_id,
                                            email |-> claims.email,
                                            roles |-> claims.roles,
                                            permissions |-> claims.permissions]]
                    /\ lastOp' = [op |-> "refresh_access_token",
                                  ret |-> <<"ok", new_access_token>>]
        /\ UNCHANGED <<now, clockTicks>>

\* refresh_access_token: the exception of verify_token, ValueError for a
\* token of another type, or the access token that create_access_token
\* returns for the claims of the refresh token
refresh_access_token(token) ==
    LET verified == verify_token_at(token, now)
        claims == verified[2]
    IN  /\ IF verified[1] # "ok"
           THEN /\ lastOp' = [op |-> "refresh_access_token", ret |-> verified]
                /\ UNCHANGED issued
           ELSE IF claims.token_type # "refresh"
           THEN /\ lastOp' = [op |-> "refresh_access_token",
                              ret |-> <<"ValueError", <<>>>>]
                /\ UNCHANGED issued
           ELSE LET new_access_token ==
                        jwt_encode(AccessClaims(claims.sub, claims.tenant_id,
                                                claims.email, claims.roles,
                                                claims.permissions, now),
                                   secret_key, algorithm)
                IN  /\ issued' = [kind |-> "access",
                                  token |-> new_access_token,
                                  args |-> [user_id |-> claims.sub,
                                            tenant_id |-> claims.tenant_id,
                                            email |-> claims.email,
                                            roles |-> claims.roles,
                                            permissions |-> claims.permissions]]
                    /\ lastOp' = [op |-> "refresh_access_token",
                                  ret |-> <<"ok", new_access_token>>]
        /\ UNCHANGED <<now, clockTicks>>

\* the caller keeps the token that the call has returned
Received == outstanding' = outstanding \cup {issued'.token}

JwtUsers == {<<"user", n>> : n \in 1..NumJwtUsers}
Tenants == {<<"tenant", n>> : n \in 1..NumTenants}
Emails == {NoEmail, "test@example.com"}
RoleLists == {NoList, <<>>, <<"viewer">>, <<"admin", "viewer">>}
PermissionLists == {NoList, <<"read:documents">>}
JwtSteps == {1, Minutes(access_token_expire_minutes),
             Days(refresh_token_expire_days)}

\* ==================================================== two-factor engine
TwoFactorConfig ==
    [is_totp_enabled |-> FALSE,
     totp_secret |-> NoSecret,
     is_sms_enabled |-> FALSE,
     phone_number |-> NoPhone,
     backup_codes |-> <<>>,
     preferred_method |-> "None"]

is_enabled(config) == config.is_totp_enabled \/ config.is_sms_enabled

is_2fa_enabled(C, u) == u \in DOMAIN C /\ is_enabled(C[u])

\* _get_or_create_config
get_or_create_config(C, u) ==
    IF u \in DOMAIN C THEN C ELSE C @@ (u :> TwoFactorConfig)

\* the code an authenticator shows for a secret in a 30-second step
TotpCode(secret, step) == <<"totp", secret, step>>

\* pyotp.TOTP(secret).verify(code, valid_window=1)
verify_totp_code(secret, code, t) ==
    LET step == t \div totp_interval
    IN  \E d \in {-1, 0, 1} : code = TotpCode(secret, step + d)

\* hashlib.sha256(code.encode()).hexdigest()
hash_backup_code(code) == <<"sha256", code>>

BackupCode(n) == <<"backup", n>>

\* _generate_backup_codes: count fresh codes, hashed, starting at number n
generate_backup_codes(n) ==
    [i \in 1..backup_code_count |-> hash_backup_code(BackupCode(n + i - 1))]

setup_totp(u) ==
    /\ configs' = [get_or_create_config(configs, u) EXCEPT
                      ![u].totp_secret = nextSecret]
    /\ nextSecret' = nextSecret + 1
    /\ lastOp' = [op |-> "setup_totp", ret |-> nextSecret]
    /\ UNCHANGED <<now, clockTicks, sms_otps, nextBackup>>

verify_totp_setup(u, code) ==
    /\ IF u \notin DOMAIN configs \/ configs[u].totp_secret = NoSecret THEN
            /\ lastOp' = [op |-> "verify_totp_setup", ret |-> FALSE]
            /\ UNCHANGED <<configs, nextBackup>>
       ELSE IF ~verify_totp_code(configs[u].totp_secret, code, now) THEN
            /\ lastOp' = [op |-> "verify_totp_setup", ret |-> FALSE]
            /\ UNCHANGED <<configs, nextBackup>>
       ELSE /\ configs' = [configs EXCEPT
                              ![u].is_totp_enabled = TRUE,
                              ![u].preferred_method = "totp",
                              ![u].backup_codes = generate_backup_codes(nextBackup)]
            /\ nextBackup' = nextBackup + backup_code_count
            /\ lastOp' = [op |-> "verify_totp_setup", ret |-> TRUE]
    /\ UNCHANGED <<now, clockTicks, sms_otps, nextSecret>>

\* verify_totp as a function of the configurations
totp_accepts(C, u, code, t) ==
    /\ u \in DOMAIN C
    /\ C[u].is_totp_enabled
    /\ C[u].totp_secret # NoSecret
    /\ verify_totp_code(C[u].totp_secret, code, t)

verify_totp(u, code) ==
    /\ lastOp' = [op |-> "verify_totp", ret |-> totp_accepts(configs, u, code, now)]
    /\ UNCHANGED <<now, clockTicks, tfVars>>

\* mutant: the preference stays on the method that is switched off
disable_totp_keeping_preference(u) ==
    /\ IF u \notin DOMAIN configs THEN
            /\ lastOp' = [op |-> "disable_totp", ret |-> FALSE]
            /\ UNCHANGED configs
       ELSE /\ configs' = [configs EXCEPT
                              ![u].is_totp_enabled = FALSE,
                              ![u].totp_secret = NoSecret]
            /\ lastOp' = [op |-> "disable_totp", ret |-> TRUE]
    /\ UNCHANGED <<now, clockTicks, sms_otps, nextSecret, nextBackup>>

disable_totp(u) ==
    /\ IF u \notin DOMAIN configs THEN
            /\ lastOp' = [op |-> "disable_totp", ret |-> FALSE]
            /\ UNCHANGED configs
       ELSE /\ configs' = [configs EXCEPT
                              ![u].is_totp_enabled = FALSE,
                              ![u].totp_secret = NoSecret,
                              ![u].preferred_method =
                                  IF @ = "totp"
                                  THEN (IF configs[u].is_sms_enabled
                                        THEN "sms" ELSE "None")
                                  ELSE @]
            /\ lastOp' = [op |-> "disable_totp", ret |-> TRUE]
    /\ UNCHANGED <<now, clockTicks, sms_otps, nextSecret, nextBackup>>

SmsCode(n) == <<"sms", n>>

\* mutant: an OTP that is still stored is not replaced by a new send
send_sms_otp_on_keeping_first(O, u, otp, t) ==
    O @@ (u :> [code |-> otp, expiry |-> t + Minutes(sms_otp_expire_minutes)])

\* send_sms_otp on the OTP store: the code drawn by _generate_sms_otp is otp
send_sms_otp_on(O, u, otp, t) ==
    (u :> [code |-> otp, expiry |-> t + Minutes(sms_otp_expire_minutes)]) @@ O

\* sms_ok is what SMSProvider.send_sms answers
send_sms_otp(u, otp, sms_ok) ==
    /\ sms_otps' = send_sms_otp_on(sms_otps, u, otp, now)
    /\ lastOp' = [op |-> "send_sms_otp", ret |-> sms_ok]
    /\ UNCHANGED <<now, clockTicks, configs, nextSecret, nextBackup>>

setup_sms(u, phone, otp, sms_ok) ==
    /\ configs' = [get_or_create_config(configs, u) EXCEPT
                      ![u].phone_number = phone]
    /\ sms_otps' = send_sms_otp_on(sms_otps, u, otp, now)
    /\ lastOp' = [op |-> "setup_sms", ret |-> sms_ok]
    /\ UNCHANGED <<now, clockTicks, nextSecret, nextBackup>>

WithoutKey(f, k) == [x \in DOMAIN f \ {k} |-> f[x]]

\* mutant: an accepted OTP stays in the store
verify_sms_otp_on_reusable(O, u, code, t) ==
    IF u \notin DOMAIN O THEN <<O, FALSE>>
    ELSE IF t > O[u].expiry THEN <<WithoutKey(O, u), FALSE>>
    ELSE IF code # O[u].code THEN <<O, FALSE>>
    ELSE <<O, TRUE>>

\* verify_sms_otp on the OTP store; the pair <<_sms_otps', returned value>>
verify_sms_otp_on(O, u, code, t) ==
    IF u \notin DOMAIN O THEN <<O, FALSE>>
    ELSE IF t > O[u].expiry THEN <<WithoutKey(O, u), FALSE>>
    ELSE IF code # O[u].code THEN <<O, FALSE>>
    ELSE <<WithoutKey(O, u), TRUE>>

verify_sms_otp(u, code) ==
    /\ LET r == verify_sms_otp_on(sms_otps, u, code, now)
       IN  /\ sms_otps' = r[1]
           /\ lastOp' = [op |-> "verify_sms_otp", ret |-> r[2]]
    /\ UNCHANGED <<now, clockTicks, configs, nextSecret, nextBackup>>

verify_sms_setup(u, code) ==
    /\ LET r == verify_sms_otp_on(sms_otps, u, code, now)
       IN  /\ sms_otps' = r[1]
           /\ IF ~r[2] \/ u \notin DOMAIN configs THEN
                   /\ lastOp' = [op |-> "verify_sms_setup", ret |-> FALSE]
                   /\ UNCHANGED <<configs, nextBackup>>
              ELSE LET fresh == configs[u].backup_codes = <<>>
                   IN  /\ configs' = [configs EXCEPT
                             ![u].is_sms_enabled = TRUE,
                             ![u].preferred_method =
                                 IF @ = "None" THEN "sms" ELSE @,
                             ![u].backup_codes =
                                 IF fresh THEN generate_backup_codes(nextBackup)
                                 ELSE @]
                       /\ nextBackup' = IF fresh
                                        THEN nextBackup + backup_code_count
                                        ELSE nextBackup
                       /\ lastOp' = [op |-> "verify_sms_setup", ret |-> TRUE]
    /\ UNCHANGED <<now, clockTicks, nextSecret>>

\* mutant: the preference is left as it was
disable_sms_keeping_preference(u) ==
    /\ IF u \notin DOMAIN configs THEN
            /\ lastOp' = [op |-> "disable_sms", ret |-> FALSE]
            /\ UNCHANGED configs
       ELSE /\ configs' = [configs EXCEPT
                              ![u].is_sms_enabled = FALSE,
                              ![u].phone_number = NoPhone]
            /\ lastOp' = [op |-> "disable_sms", ret |-> TRUE]
    /\ UNCHANGED <<now, clockTicks, sms_otps, nextSecret, nextBackup>>

disable_sms(u) ==
    /\ IF u \notin DOMAIN configs THEN
            /\ lastOp' = [op |-> "disable_sms", ret |-> FALSE]
            /\ UNCHANGED configs
       ELSE /\ configs' = [configs EXCEPT
                              ![u].is_sms_enabled = FALSE,
                              ![u].phone_number = NoPhone,
                              ![u].preferred_method =
                                  IF @ = "sms"
                                  THEN (IF configs[u].is_totp_enabled
                                        THEN "totp" ELSE "None")
                                  ELSE @]
            /\ lastOp' = [op |-> "disable_sms", ret |-> TRUE]
    /\ UNCHANGED <<now, clockTicks, sms_otps, nextSecret, nextBackup>>

\* mutant: removing an element that is not in the list is silently ignored
list_remove_silent(list, x) == <<SeqRemoveFirst(list, x), "ok">>

\* list.remove(x); the pair <<list', "ok" or the exception raised>>
list_remove(list, x) ==
    IF x \in Range(list) THEN <<SeqRemoveFirst(list, x), "ok">>
    ELSE <<list, "ValueError">>

\* mutant: the used code is not removed
verify_backup_code_kept(C, u, code) ==
    IF u \notin DOMAIN C \/ C[u].backup_codes = <<>> THEN <<C, FALSE>>
    ELSE IF hash_backup_code(code) \notin Range(C[u].backup_codes)
    THEN <<C, FALSE>>
    ELSE <<C, TRUE>>

\* verify_backup_code on the configurations; the pair <<_configs', returned value>>
verify_backup_code_on(C, u, code) ==
    IF u \notin DOMAIN C \/ C[u].backup_codes = <<>> THEN <<C, FALSE>>
    ELSE LET hashed == hash_backup_code(code)
         IN  IF hashed \notin Range(C[u].backup_codes) THEN <<C, FALSE>>
             ELSE <<[C EXCEPT ![u].backup_codes = list_remove(@, hashed)[1]],
                    TRUE>>

verify_backup_code(u, code) ==
    /\ LET r == verify_backup_code_on(configs, u, code)
       IN  /\ configs' = r[1]
           /\ lastOp' = [op |-> "verify_backup_code", ret |-> r[2]]
    /\ UNCHANGED <<now, clockTicks, sms_otps, nextSecret, nextBackup>>

\* mutant: the new codes are added to the stored ones
regenerate_backup_codes_appending(u) ==
    /\ IF u \notin DOMAIN configs THEN
            /\ lastOp' = [op |-> "regenerate_backup_codes", ret |-> "ValueError"]
            /\ UNCHANGED <<configs, nextBackup>>
       ELSE /\ configs' = [configs EXCEPT
                              ![u].backup_codes =
                                  @ \o generate_backup_codes(nextBackup)]
            /\ nextBackup' = nextBackup + backup_code_count
            /\ lastOp' = [op |-> "regenerate_backup_codes", ret |-> "codes"]
    /\ UNCHANGED <<now, clockTicks, sms_otps, nextSecret>>

regenerate_backup_codes(u) ==
    /\ IF u \notin DOMAIN configs THEN
            /\ lastOp' = [op |-> "regenerate_backup_codes", ret |-> "ValueError"]
            /\ UNCHANGED <<configs, nextBackup>>
       ELSE /\ configs' = [configs EXCEPT
                              ![u].backup_codes = generate_backup_codes(nextBackup)]
            /\ nextBackup' = nextBackup + backup_code_count
            /\ lastOp' = [op |-> "regenerate_backup_codes", ret |-> "codes"]
    /\ UNCHANGED <<now, clockTicks, sms_otps, nextSecret>>

Methods == {"None", "totp", "sms"}

\* mutant: a code the explicit method refuses goes on to the backup codes
verify_2fa_methods_falling_back(C, O, u, code, method, t) ==
    IF u \notin DOMAIN C \/ ~is_enabled(C[u]) THEN <<O, "False">>
    ELSE IF method = "totp" /\ C[u].is_totp_enabled
    THEN <<O, IF totp_accepts(C, u, code, t) THEN "True" ELSE "backup">>
    ELSE IF method = "sms" /\ C[u].is_sms_enabled
    THEN LET r == verify_sms_otp_on(O, u, code, t)
         IN  <<r[1], IF r[2] THEN "True" ELSE "backup">>
    ELSE
    LET pref == C[u].preferred_method
        p == IF pref = "totp" /\ C[u].is_totp_enabled
             THEN <<O, totp_accepts(C, u, code, t)>>
             ELSE IF pref = "sms" /\ C[u].is_sms_enabled
             THEN verify_sms_otp_on(O, u, code, t)
             ELSE <<O, FALSE>>
        q == IF p[2] THEN p
             ELSE IF C[u].is_totp_enabled /\ pref # "totp"
                     /\ totp_accepts(C, u, code, t)
             THEN <<p[1], TRUE>>
             ELSE IF C[u].is_sms_enabled /\ pref # "sms"
             THEN verify_sms_otp_on(p[1], u, code, t)
             ELSE <<p[1], FALSE>>
    IN  <<q[1], IF q[2] THEN "True" ELSE "backup">>

\* mutant: auto-detection tries the preferred method and the backup codes only
verify_2fa_methods_preferred_only(C, O, u, code, method, t) ==
    IF u \notin DOMAIN C \/ ~is_enabled(C[u]) THEN <<O, "False">>
    ELSE IF method = "totp" /\ C[u].is_totp_enabled
    THEN <<O, IF totp_accepts(C, u, code, t) THEN "True" ELSE "False">>
    ELSE IF method = "sms" /\ C[u].is_sms_enabled
    THEN LET r == verify_sms_otp_on(O, u, code, t)
         IN  <<r[1], IF r[2] THEN "True" ELSE "False">>
    ELSE
    LET pref == C[u].preferred_method
        p == IF pref = "totp" /\ C[u].is_totp_enabled
             THEN <<O, totp_accepts(C, u, code, t)>>
             ELSE IF pref = "sms" /\ C[u].is_sms_enabled
             THEN verify_sms_otp_on(O, u, code, t)
             ELSE <<O, FALSE>>
    IN  <<p[1], IF p[2] THEN "True" ELSE "backup">>

\* lines 543-570 of verify_2fa, everything before the backup code: the pair
\* <<_sms_otps', "True" | "False" when it returns there, else "backup">>
verify_2fa_methods(C, O, u, code, method, t) ==
    IF u \notin DOMAIN C \/ ~is_enabled(C[u]) THEN <<O, "False">>
    ELSE IF method = "totp" /\ C[u].is_totp_enabled
    THEN <<O, IF totp_accepts(C, u, code, t) THEN "True" ELSE "False">>
    ELSE IF method = "sms" /\ C[u].is_sms_enabled
    THEN LET r == verify_sms_otp_on(O, u, code, t)
         IN  <<r[1], IF r[2] THEN "True" ELSE "False">>
    ELSE
    LET pref == C[u].preferred_method
        \* preferred method first
        p == IF pref = "totp" /\ C[u].is_totp_enabled
             THEN <<O, totp_accepts(C, u, code, t)>>
             ELSE IF pref = "sms" /\ C[u].is_sms_enabled
             THEN verify_sms_otp_on(O, u, code, t)
             ELSE <<O, FALSE>>
        \* other enabled methods
        q == IF p[2] THEN p
             ELSE IF C[u].is_totp_enabled /\ pref # "totp"
                     /\ totp_accepts(C, u, code, t)
             THEN <<p[1], TRUE>>
             ELSE IF C[u].is_sms_enabled /\ pref # "sms"
             THEN verify_sms_otp_on(p[1], u, code, t)
             ELSE <<p[1], FALSE>>
    IN  <<q[1], IF q[2] THEN "True" ELSE "backup">>

\* mutant: backup codes are tried although no method is enabled
verify_2fa_always_trying_backup_codes(u, code, method) ==
    /\ LET m == verify_2fa_methods(configs, sms_otps, u, code, method, now)
           b == verify_backup_code_on(configs, u, code)
       IN  /\ sms_otps' = m[1]
           /\ IF m[2] = "backup" \/ ~is_2fa_enabled(configs, u)
              THEN /\ configs' = b[1]
                   /\ lastOp' = [op |-> "verify_2fa", ret |-> b[2]]
              ELSE /\ configs' = configs
                   /\ lastOp' = [op |-> "verify_2fa", ret |-> (m[2] = "True")]
    /\ UNCHANGED <<now, clockTicks, nextSecret, nextBackup>>

verify_2fa(u, code, method) ==
    /\ LET m == verify_2fa_methods(configs, sms_otps, u, code, method, now)
           b == verify_backup_code_on(configs, u, code)
       IN  /\ sms_otps' = m[1]
           /\ IF m[2] = "backup"
              THEN /\ configs' = b[1]
                   /\ lastOp' = [op |-> "verify_2fa", ret |-> b[2]]
              ELSE /\ configs' = configs
                   /\ lastOp' = [op |-> "verify_2fa", ret |-> (m[2] = "True")]
    /\ UNCHANGED <<now, clockTicks, nextSecret, nextBackup>>

\* ---------------------------------------- verify_backup_code, step by step
\* A thread running verify_backup_code (on its own, or reached from
\* verify_2fa after every method refused the code) can be preempted between
\* the lookup, the membership test and the removal.

\* the call starts; through verify_2fa, lines 543-570 run first
vbc_call(t, u, code, through_2fa) ==
    /\ pc[t] = "idle"
    /\ LET unused == u \in DOMAIN configs
                     /\ hash_backup_code(code) \in Range(configs[u].backup_codes)
           m == IF through_2fa
                THEN verify_2fa_methods(configs, sms_otps, u, code, "None", now)
                ELSE <<sms_otps, "backup">>
       IN  /\ sms_otps' = m[1]
           /\ frame' = [frame EXCEPT ![t] =
                 [user |-> u, code |-> code, unused |-> unused,
                  entered |-> m[2] = "backup",
                  result |-> IF m[2] = "backup" THEN "pending" ELSE m[2]]]
           /\ pc' = [pc EXCEPT ![t] = IF m[2] = "backup" THEN "vbc_get" ELSE "done"]
    /\ UNCHANGED <<now, clockTicks, configs, nextSecret, nextBackup, lastOp>>

Returns(t, value) ==
    /\ frame' = [frame EXCEPT ![t].result = value]
    /\ pc' = [pc EXCEPT ![t] = "done"]

\* lines 449-453: config = self._configs.get(user_id); empty list test
vbc_get(t) ==
    /\ pc[t] = "vbc_get"
    /\ IF frame[t].user \notin DOMAIN configs
          \/ configs[frame[t].user].backup_codes = <<>>
       THEN Returns(t, "False")
       ELSE pc' = [pc EXCEPT ![t] = "vbc_test"] /\ frame' = frame
    /\ UNCHANGED <<now, clockTicks, tfVars, lastOp>>

\* lines 456-461: if hashed not in config.backup_codes
vbc_test(t) ==
    /\ pc[t] = "vbc_test"
    /\ IF hash_backup_code(frame[t].code)
             \notin Range(configs[frame[t].user].backup_codes)
       THEN Returns(t, "False")
       ELSE pc' = [pc EXCEPT ![t] = "vbc_remove"] /\ frame' = frame
    /\ UNCHANGED <<now, clockTicks, tfVars, lastOp>>

\* lines 464-469: config.backup_codes.remove(hashed); return True
vbc_remove(t) ==
    /\ pc[t] = "vbc_remove"
    /\ LET u == frame[t].user
           r == list_remove(configs[u].backup_codes,
                            hash_backup_code(frame[t].code))
       IN  /\ configs' = [configs EXCEPT ![u].backup_codes = r[1]]
           /\ Returns(t, IF r[2] = "ok" THEN "True" ELSE r[2])
    /\ UNCHANGED <<now, clockTicks, sms_otps, nextSecret, nextBackup, lastOp>>

\* ---------------------------------------------------- what callers present
OtpCodes == {SmsCode(n) : n \in 1..NumOtpCodes}
Phones == {1}

\* backup codes a caller tries: the first MaxPresented of each batch issued
PresentedBackupCodes ==
    {BackupCode(n) : n \in {k \in 1..(nextBackup - 1) :
                               (k - 1) % backup_code_count < MaxPresented}}

PresentedTotpCodes ==
    {TotpCode(secret, (now \div totp_interval) + d) :
        secret \in 1..(nextSecret - 1), d \in {-2, -1, 0, 1, 2}}

PresentedCodes == PresentedBackupCodes \cup PresentedTotpCodes \cup OtpCodes

\* the codes presented at login: the current TOTP code of every secret
\* issued so far, backup codes, SMS codes
LoginCodes ==
    {TotpCode(secret, now \div totp_interval) : secret \in 1..(nextSecret - 1)}
    \cup PresentedBackupCodes \cup OtpCodes

\* within the life of an SMS OTP, and to its end
SmsSteps == {1, Minutes(sms_otp_expire_minutes)}

\* to the next TOTP step, and just past the expiry of an SMS OTP
VerifySteps == {totp_interval, Minutes(sms_otp_expire_minutes) + 1}

TwoFactorSteps == {1, totp_interval, Minutes(sms_otp_expire_minutes)}

ShortSteps == {1}
LongSteps == {1, Hours(session_expire_hours), Days(cleanup_retention_days)}

\* the clock moves forward by d seconds
Tick(d) ==
    /\ now' = now + d
    /\ clockTicks' = clockTicks + 1
    /\ lastOp' = [op |-> "tick", ret |-> 0]

\* ========================================================= specification
Init ==
    /\ now = 0
    /\ clockTicks = 0
    /\ sessions = <<>>
    /\ user_sessions = <<>>
    /\ nextSid = 1
    /\ lastOp = [op |-> "init", ret |-> 0]
    /\ pc = [t \in Threads |-> "idle"]
    /\ frame = [t \in Threads |-> NoFrame]
    /\ tokens = <<>>
    /\ user_tokens = <<>>
    /\ nextToken = 1
    /\ redeemed = {}
    /\ configs = <<>>
    /\ sms_otps = <<>>
    /\ nextSecret = 1
    /\ nextBackup = 1
    /\ nextSalt = 1
    /\ users = <<>>
    /\ limits = <<>>
    /\ found = NoRecord
    /\ failed_at = [x \in Identifiers |-> <<>>]
    /\ called = NoCall
    /\ sent = [u \in TwoFactorUsers |-> <<>>]
    /\ issued = NoJwt
    /\ outstanding = {}

LogoutReasons == {"logout"}
AnyReasons == {"logout", "security"}

\* many sessions, little time: the session limit and logout-everywhere
NextSession ==
    \/ \E u \in Users : nextSid <= MaxSessions /\ create_session(u)
          /\ UNCHANGED <<threadVars, resetVars, tfVars, userVars, rlVars, obsVars, jwtVars>>
    \/ \E sid \in SessIds : validate_session(sid)
          /\ UNCHANGED <<threadVars, resetVars, tfVars, userVars, rlVars, obsVars, jwtVars>>
    \/ \E sid \in SessIds, r \in LogoutReasons : invalidate_session(sid, r)
          /\ UNCHANGED <<threadVars, resetVars, tfVars, userVars, rlVars, obsVars, jwtVars>>
    \/ \E u \in Users, e \in SessIds \cup {NoSession} :
           invalidate_all_user_sessions(u, e)
           /\ UNCHANGED <<threadVars, resetVars, tfVars, userVars, rlVars, obsVars, jwtVars>>
    \/ \E sid \in SessIds, e \in ExtendHours : refresh_session(sid, e)
          /\ UNCHANGED <<threadVars, resetVars, tfVars, userVars, rlVars, obsVars, jwtVars>>
    \/ cleanup_expired_sessions
          /\ UNCHANGED <<threadVars, resetVars, tfVars, userVars, rlVars, obsVars, jwtVars>>
    \/ \E d \in ShortSteps : clockTicks < MaxTicks /\ Tick(d) /\ UNCHANGED sessVars
          /\ UNCHANGED <<threadVars, resetVars, tfVars, userVars, rlVars, obsVars, jwtVars>>

SpecSession == Init /\ [][NextSession]_vars

\* few sessions, long time: expiry and the retention window
NextSessionAging ==
    \/ \E u \in Users : nextSid <= MaxFewSessions /\ create_session(u)
          /\ UNCHANGED <<threadVars, resetVars, tfVars, userVars, rlVars, obsVars, jwtVars>>
    \/ \E sid \in FewSessIds : validate_session(sid)
          /\ UNCHANGED <<threadVars, resetVars, tfVars, userVars, rlVars, obsVars, jwtVars>>
    \/ \E sid \in FewSessIds, r \in AnyReasons : invalidate_session(sid, r)
          /\ UNCHANGED <<threadVars, resetVars, tfVars, userVars, rlVars, obsVars, jwtVars>>
    \/ \E u \in Users, e \in FewSessIds \cup {NoSession} :
           invalidate_all_user_sessions(u, e)
           /\ UNCHANGED <<threadVars, resetVars, tfVars, userVars, rlVars, obsVars, jwtVars>>
    \/ \E sid \in FewSessIds, e \in ExtendHours : refresh_session(sid, e)
          /\ UNCHANGED <<threadVars, resetVars, tfVars, userVars, rlVars, obsVars, jwtVars>>
    \/ cleanup_expired_sessions
          /\ UNCHANGED <<threadVars, resetVars, tfVars, userVars, rlVars, obsVars, jwtVars>>
    \/ \E d \in LongSteps : clockTicks < MaxLongTicks /\ Tick(d) /\ UNCHANGED sessVars
          /\ UNCHANGED <<threadVars, resetVars, tfVars, userVars, rlVars, obsVars, jwtVars>>

SpecSessionAging == Init /\ [][NextSessionAging]_vars

\* create_session on concurrent threads, the other calls between its steps
NextSessionThreads ==
    \/ \E t \in Threads, u \in Users : nextSid <= MaxSessions /\ cs_store(t, u)
          /\ UNCHANGED <<resetVars, tfVars, userVars, rlVars, obsVars, jwtVars>>
    \/ \E t \in Threads : cs_track_check(t)
          /\ UNCHANGED <<resetVars, tfVars, userVars, rlVars, obsVars, jwtVars>>
    \/ \E t \in Threads : cs_track_init(t)
          /\ UNCHANGED <<resetVars, tfVars, userVars, rlVars, obsVars, jwtVars>>
    \/ \E t \in Threads : cs_track_append(t)
          /\ UNCHANGED <<resetVars, tfVars, userVars, rlVars, obsVars, jwtVars>>
    \/ \E t \in Threads : cs_enforce_len(t)
          /\ UNCHANGED <<resetVars, tfVars, userVars, rlVars, obsVars, jwtVars>>
    \/ \E t \in Threads : cs_enforce_scan(t)
          /\ UNCHANGED <<resetVars, tfVars, userVars, rlVars, obsVars, jwtVars>>
    \/ \E t \in Threads : cs_enforce_invalidate(t)
          /\ UNCHANGED <<resetVars, tfVars, userVars, rlVars, obsVars, jwtVars>>
    \/ \E t \in Threads : cs_return(t)
          /\ UNCHANGED <<resetVars, tfVars, userVars, rlVars, obsVars, jwtVars>>
    \/ UNCHANGED threadVars /\ \E sid \in SessIds : validate_session(sid)
          /\ UNCHANGED <<resetVars, tfVars, userVars, rlVars, obsVars, jwtVars>>
    \/ UNCHANGED threadVars
          /\ \E sid \in SessIds, r \in LogoutReasons : invalidate_session(sid, r)
          /\ UNCHANGED <<resetVars, tfVars, userVars, rlVars, obsVars, jwtVars>>
    \/ UNCHANGED threadVars
          /\ \E sid \in SessIds, e \in ExtendHours : refresh_session(sid, e)
          /\ UNCHANGED <<resetVars, tfVars, userVars, rlVars, obsVars, jwtVars>>

SpecSessionThreads == Init /\ [][NextSessionThreads]_vars

\* the password reset calls, one at a time
NextReset ==
    \/ \E u \in Users, ok \in BOOLEAN :
          nextToken <= MaxTokens /\ request_password_reset(u, ok)
          /\ UNCHANGED <<sessVars, threadVars, tfVars, userVars, rlVars, obsVars, jwtVars>>
    \/ \E raw \in RawTokens : validate_reset_token(raw)
          /\ UNCHANGED <<sessVars, threadVars, tfVars, userVars, rlVars, obsVars, jwtVars>>
    \/ \E raw \in RawTokens : reset_password(raw)
          /\ UNCHANGED <<sessVars, threadVars, tfVars, userVars, rlVars, obsVars, jwtVars>>
    \/ \E u \in Users : cancel_reset_request(u)
          /\ UNCHANGED <<sessVars, threadVars, tfVars, userVars, rlVars, obsVars, jwtVars>>
    \/ cleanup_expired_tokens
          /\ UNCHANGED <<sessVars, threadVars, tfVars, userVars, rlVars, obsVars, jwtVars>>
    \/ \E d \in ResetSteps :
          clockTicks < MaxResetTicks /\ Tick(d) /\ UNCHANGED resetVars
          /\ UNCHANGED <<sessVars, threadVars, tfVars, userVars, rlVars, obsVars, jwtVars>>

SpecReset == Init /\ [][NextReset]_vars

\* reset_password on concurrent threads, requests and cancellations between
\* its steps
NextResetThreads ==
    \/ \E u \in Users, ok \in BOOLEAN :
          nextToken <= MaxTokens /\ request_password_reset(u, ok)
          /\ UNCHANGED <<sessVars, threadVars, tfVars, userVars, rlVars, obsVars, jwtVars>>
    \/ \E u \in Users : cancel_reset_request(u)
          /\ UNCHANGED <<sessVars, threadVars, tfVars, userVars, rlVars, obsVars, jwtVars>>
    \/ \E t \in Threads, raw \in RawTokens : rp_validate(t, raw)
          /\ UNCHANGED <<sessVars, tfVars, userVars, rlVars, obsVars, jwtVars>>
    \/ \E t \in Threads : rp_mark(t)
          /\ UNCHANGED <<sessVars, tfVars, userVars, rlVars, obsVars, jwtVars>>
    \/ \E t \in Threads : rp_return(t)
          /\ UNCHANGED <<sessVars, tfVars, userVars, rlVars, obsVars, jwtVars>>

SpecResetThreads == Init /\ [][NextResetThreads]_vars

\* password reset through the credential store
NextUserReset ==
    \/ \E u \in Users, password \in Passwords : create_user(u, password)
          /\ UNCHANGED <<sessVars, threadVars, tfVars, rlVars, obsVars, jwtVars>>
    \/ \E u \in Users, ok \in BOOLEAN :
          nextToken <= MaxFewTokens /\ user_request_password_reset(u, ok)
          /\ UNCHANGED <<sessVars, threadVars, tfVars, userVars, rlVars, obsVars, jwtVars>>
    \/ \E u \in Users, ok \in BOOLEAN :
          nextToken <= MaxFewTokens /\ request_password_reset(u, ok)
          /\ UNCHANGED <<sessVars, threadVars, tfVars, userVars, rlVars, obsVars, jwtVars>>
    \/ \E raw \in FewRawTokens, password \in Passwords :
          reset_password_with_token(raw, password)
          /\ UNCHANGED <<sessVars, threadVars, tfVars, rlVars, obsVars, jwtVars>>
    \/ \E raw \in FewRawTokens : reset_password(raw)
          /\ UNCHANGED <<sessVars, threadVars, tfVars, userVars, rlVars, obsVars, jwtVars>>
    \/ \E d \in ResetSteps :
          clockTicks < MaxResetTicks /\ Tick(d) /\ UNCHANGED resetVars
          /\ UNCHANGED <<sessVars, threadVars, tfVars, userVars, rlVars, obsVars, jwtVars>>

SpecUserReset == Init /\ [][NextUserReset]_vars

NotifierSteps == {1, Minutes(sms_otp_expire_minutes), Hours(token_expire_hours)}

\* the calls that hand a secret to the notifier, and the calls that accept it
NextNotifier ==
    \/ \E u \in TwoFactorUsers, ok \in BOOLEAN :
          nextToken <= MaxFewTokens /\ request_password_reset(u, ok)
          /\ UNCHANGED <<sessVars, threadVars, tfVars, userVars, rlVars, obsVars, jwtVars>>
    \/ \E raw \in FewRawTokens : validate_reset_token(raw)
          /\ UNCHANGED <<sessVars, threadVars, tfVars, userVars, rlVars, obsVars, jwtVars>>
    \/ \E raw \in FewRawTokens : reset_password(raw)
          /\ UNCHANGED <<sessVars, threadVars, tfVars, userVars, rlVars, obsVars, jwtVars>>
    \/ \E u \in TwoFactorUsers : cancel_reset_request(u)
          /\ UNCHANGED <<sessVars, threadVars, tfVars, userVars, rlVars, obsVars, jwtVars>>
    \/ cleanup_expired_tokens
          /\ UNCHANGED <<sessVars, threadVars, tfVars, userVars, rlVars, obsVars, jwtVars>>
    \/ \E u \in TwoFactorUsers, p \in Phones, otp \in OtpCodes, ok \in BOOLEAN :
          setup_sms(u, p, otp, ok)
          /\ UNCHANGED <<sessVars, threadVars, resetVars, userVars, rlVars, obsVars, jwtVars>>
    \/ \E u \in TwoFactorUsers, otp \in OtpCodes, ok \in BOOLEAN :
          send_sms_otp(u, otp, ok)
          /\ UNCHANGED <<sessVars, threadVars, resetVars, userVars, rlVars, obsVars, jwtVars>>
    \/ \E u \in TwoFactorUsers, code \in OtpCodes :
          nextBackup <= 1 /\ verify_sms_setup(u, code)
          /\ UNCHANGED <<sessVars, threadVars, resetVars, userVars, rlVars, obsVars, jwtVars>>
    \/ \E u \in TwoFactorUsers, code \in OtpCodes : verify_sms_otp(u, code)
          /\ UNCHANGED <<sessVars, threadVars, resetVars, userVars, rlVars, obsVars, jwtVars>>
    \/ \E d \in NotifierSteps :
          clockTicks < MaxResetTicks /\ Tick(d)
          /\ UNCHANGED <<sessVars, threadVars, resetVars, tfVars, userVars, rlVars, obsVars, jwtVars>>

SpecNotifier == Init /\ [][NextNotifier]_vars

\* the rate limiter calls, one at a time
NextRateLimiter ==
    \/ \E x \in Identifiers, T \in AnyLimitTypes :
          KeyInBounds(x, T) /\ check_rate_limit(x, T)
          /\ UNCHANGED <<sessVars, threadVars, resetVars, tfVars, userVars, obsVars, jwtVars, found>>
    \/ \E x \in Identifiers, T \in AnyLimitTypes, success \in BOOLEAN :
          KeyInBounds(x, T) /\ Recorded(x, T) < MaxRecorded
          /\ record_attempt(x, T, success)
          /\ UNCHANGED <<sessVars, threadVars, resetVars, tfVars, userVars, obsVars, jwtVars, found>>
    \/ \E x \in Identifiers, T \in LimitTypes : reset(x, T)
          /\ UNCHANGED <<sessVars, threadVars, resetVars, tfVars, userVars, obsVars, jwtVars, found>>
    \/ \E x \in Identifiers, T \in AnyLimitTypes : get_status(x, T)
          /\ UNCHANGED <<sessVars, threadVars, resetVars, tfVars, userVars, obsVars, jwtVars, found>>
    \/ cleanup_expired
          /\ UNCHANGED <<sessVars, threadVars, resetVars, tfVars, userVars, obsVars, jwtVars, found>>
    \/ \E d \in RateSteps :
          clockTicks < MaxRateTicks /\ Tick(d)
          /\ UNCHANGED <<sessVars, threadVars, resetVars, tfVars, userVars, rlVars, obsVars, jwtVars>>

SpecRateLimiter == Init /\ [][NextRateLimiter]_vars

\* the login limit of each identifier, with the failed attempts remembered
NextLoginLimiter ==
    \/ \E x \in Identifiers : check_rate_limit(x, "login")
          /\ UNCHANGED <<sessVars, threadVars, resetVars, tfVars, userVars, obsVars, jwtVars, found>>
    \/ \E x \in Identifiers :
          /\ Recorded(x, "login") < MaxRecorded
          /\ record_attempt(x, "login", FALSE)
          /\ failed_at' = [failed_at EXCEPT ![x] = Append(@, now)]
          /\ UNCHANGED <<called, sent>>
          /\ UNCHANGED <<sessVars, threadVars, resetVars, tfVars, userVars, jwtVars, found>>
    \/ \E x \in Identifiers :
          /\ record_attempt(x, "login", TRUE)
          /\ failed_at' = [failed_at EXCEPT ![x] = <<>>]
          /\ UNCHANGED <<called, sent>>
          /\ UNCHANGED <<sessVars, threadVars, resetVars, tfVars, userVars, jwtVars, found>>
    \/ \E x \in Identifiers :
          /\ reset(x, "login")
          /\ failed_at' = [failed_at EXCEPT ![x] = <<>>]
          /\ UNCHANGED <<called, sent>>
          /\ UNCHANGED <<sessVars, threadVars, resetVars, tfVars, userVars, jwtVars, found>>
    \/ \E x \in Identifiers : get_status(x, "login")
          /\ UNCHANGED <<sessVars, threadVars, resetVars, tfVars, userVars, obsVars, jwtVars, found>>
    \/ \E d \in RateSteps :
          clockTicks < MaxRateTicks /\ Tick(d)
          /\ UNCHANGED <<sessVars, threadVars, resetVars, tfVars, userVars, rlVars,
                         obsVars, jwtVars>>

SpecLoginLimiter == Init /\ [][NextLoginLimiter]_vars

\* failed logins recorded by several threads, each call remembered on return
NextRecordThreads ==
    \/ \E t \in Threads, x \in Identifiers :
          /\ Len(failed_at[x]) + Cardinality({o \in Threads : pc[o] # "idle"})
               < MaxRecorded
          /\ ra_read(t, x, "login")
          /\ UNCHANGED <<sessVars, resetVars, tfVars, userVars, obsVars, jwtVars, found>>
    \/ \E t \in Threads : ra_write(t)
          /\ UNCHANGED <<sessVars, resetVars, tfVars, userVars, obsVars, jwtVars, found>>
    \/ \E t \in Threads :
          /\ ra_return(t)
          /\ failed_at' = [failed_at EXCEPT ![frame[t].identifier] =
                               Append(@, now)]
          /\ UNCHANGED <<called, sent>>
          /\ UNCHANGED <<sessVars, resetVars, tfVars, userVars, jwtVars, found>>
    \/ \E d \in RateSteps :
          clockTicks < MaxRateTicks /\ Tick(d)
          /\ UNCHANGED <<sessVars, threadVars, resetVars, tfVars, userVars, rlVars,
                         obsVars, jwtVars>>

SpecRecordThreads == Init /\ [][NextRecordThreads]_vars

\* the two-factor calls, with the arguments of verify_2fa remembered
NextVerify2fa ==
    \/ \E u \in TwoFactorUsers : nextSecret <= MaxSecrets /\ setup_totp(u)
          /\ called' = NoCall
          /\ UNCHANGED <<sessVars, threadVars, resetVars, userVars, rlVars, failed_at,
                       sent, jwtVars>>
    \/ \E u \in TwoFactorUsers, code \in PresentedTotpCodes :
          nextBackup <= (MaxBatches - 1) * backup_code_count + 1
          /\ verify_totp_setup(u, code)
          /\ called' = NoCall
          /\ UNCHANGED <<sessVars, threadVars, resetVars, userVars, rlVars, failed_at,
                       sent, jwtVars>>
    \/ \E u \in TwoFactorUsers : disable_totp(u)
          /\ called' = NoCall
          /\ UNCHANGED <<sessVars, threadVars, resetVars, userVars, rlVars, failed_at,
                       sent, jwtVars>>
    \/ \E u \in TwoFactorUsers, p \in Phones, otp \in OtpCodes, ok \in BOOLEAN :
          setup_sms(u, p, otp, ok)
          /\ called' = NoCall
          /\ UNCHANGED <<sessVars, threadVars, resetVars, userVars, rlVars, failed_at,
                       sent, jwtVars>>
    \/ \E u \in TwoFactorUsers, otp \in OtpCodes, ok \in BOOLEAN : send_sms_otp(u, otp, ok)
          /\ called' = NoCall
          /\ UNCHANGED <<sessVars, threadVars, resetVars, userVars, rlVars, failed_at,
                       sent, jwtVars>>
    \/ \E u \in TwoFactorUsers, code \in OtpCodes :
          nextBackup <= (MaxBatches - 1) * backup_code_count + 1
          /\ verify_sms_setup(u, code)
          /\ called' = NoCall
          /\ UNCHANGED <<sessVars, threadVars, resetVars, userVars, rlVars, failed_at,
                       sent, jwtVars>>
    \/ \E u \in TwoFactorUsers : disable_sms(u)
          /\ called' = NoCall
          /\ UNCHANGED <<sessVars, threadVars, resetVars, userVars, rlVars, failed_at,
                       sent, jwtVars>>
    \/ \E u \in TwoFactorUsers, code \in LoginCodes, m \in Methods :
          verify_2fa(u, code, m)
          /\ called' = [user |-> u, code |-> code, method |-> m]
          /\ UNCHANGED <<sessVars, threadVars, resetVars, userVars, rlVars, failed_at,
                       sent, jwtVars>>
    \/ \E d \in VerifySteps :
          clockTicks < MaxVerifyTicks /\ Tick(d) /\ UNCHANGED tfVars
          /\ called' = NoCall
          /\ UNCHANGED <<sessVars, threadVars, resetVars, userVars, rlVars, failed_at,
                       sent, jwtVars>>

SpecVerify2fa == Init /\ [][NextVerify2fa]_vars

\* a user who sets up TOTP, and may ask for SMS but never verifies it: SMS
\* two-factor is never enabled
NextTotpOnly ==
    \/ \E u \in TwoFactorUsers : nextSecret <= MaxSecrets /\ setup_totp(u)
          /\ UNCHANGED <<sessVars, threadVars, resetVars, userVars, rlVars, obsVars, jwtVars>>
    \/ \E u \in TwoFactorUsers, code \in PresentedTotpCodes :
          nextBackup <= (MaxBatches - 1) * backup_code_count + 1
          /\ verify_totp_setup(u, code)
          /\ UNCHANGED <<sessVars, threadVars, resetVars, userVars, rlVars, obsVars, jwtVars>>
    \/ \E u \in TwoFactorUsers, code \in PresentedTotpCodes : verify_totp(u, code)
          /\ UNCHANGED <<sessVars, threadVars, resetVars, userVars, rlVars, obsVars, jwtVars>>
    \/ \E u \in TwoFactorUsers : disable_totp(u)
          /\ UNCHANGED <<sessVars, threadVars, resetVars, userVars, rlVars, obsVars, jwtVars>>
    \/ \E u \in TwoFactorUsers, p \in Phones, otp \in OtpCodes, ok \in BOOLEAN :
          setup_sms(u, p, otp, ok)
          /\ UNCHANGED <<sessVars, threadVars, resetVars, userVars, rlVars, obsVars, jwtVars>>
    \/ \E u \in TwoFactorUsers : disable_sms(u)
          /\ UNCHANGED <<sessVars, threadVars, resetVars, userVars, rlVars, obsVars, jwtVars>>
    \/ \E d \in TwoFactorSteps :
          clockTicks < MaxTwoFactorTicks /\ Tick(d) /\ UNCHANGED tfVars
          /\ UNCHANGED <<sessVars, threadVars, resetVars, userVars, rlVars, obsVars, jwtVars>>

SpecTotpOnly == Init /\ [][NextTotpOnly]_vars

\* the entry of the OTP log for a code sent at time t
Sent(otp, t) == [code |-> otp, at |-> t, used |-> FALSE]

\* the log after a verification: an acceptance marks the latest OTP used
AfterVerification(log, accepted) ==
    IF accepted /\ log # <<>> THEN [log EXCEPT ![Len(log)].used = TRUE]
    ELSE log

\* SMS two-factor with the OTPs sent and the codes presented remembered
NextSmsOtp ==
    \/ \E u \in TwoFactorUsers, p \in Phones, otp \in OtpCodes, ok \in BOOLEAN :
          /\ Len(sent[u]) < MaxSent
          /\ setup_sms(u, p, otp, ok)
          /\ sent' = [sent EXCEPT ![u] = Append(@, Sent(otp, now))]
          /\ called' = NoCall
          /\ UNCHANGED <<sessVars, threadVars, resetVars, userVars, rlVars, failed_at, jwtVars>>
    \/ \E u \in TwoFactorUsers, otp \in OtpCodes, ok \in BOOLEAN :
          /\ Len(sent[u]) < MaxSent
          /\ send_sms_otp(u, otp, ok)
          /\ sent' = [sent EXCEPT ![u] = Append(@, Sent(otp, now))]
          /\ called' = NoCall
          /\ UNCHANGED <<sessVars, threadVars, resetVars, userVars, rlVars, failed_at, jwtVars>>
    \/ \E u \in TwoFactorUsers, code \in OtpCodes :
          /\ nextBackup <= (MaxBatches - 1) * backup_code_count + 1
          /\ verify_sms_setup(u, code)
          /\ called' = [user |-> u, code |-> code, method |-> "sms"]
          /\ sent' = [sent EXCEPT ![u] = AfterVerification(@, lastOp'.ret)]
          /\ UNCHANGED <<sessVars, threadVars, resetVars, userVars, rlVars, failed_at, jwtVars>>
    \/ \E u \in TwoFactorUsers, code \in OtpCodes :
          /\ verify_sms_otp(u, code)
          /\ called' = [user |-> u, code |-> code, method |-> "sms"]
          /\ sent' = [sent EXCEPT ![u] = AfterVerification(@, lastOp'.ret)]
          /\ UNCHANGED <<sessVars, threadVars, resetVars, userVars, rlVars, failed_at, jwtVars>>
    \/ \E u \in TwoFactorUsers, code \in OtpCodes, m \in {"None", "sms"} :
          /\ verify_2fa(u, code, m)
          /\ called' = [user |-> u, code |-> code, method |-> m]
          /\ sent' = [sent EXCEPT ![u] = AfterVerification(@, lastOp'.ret)]
          /\ UNCHANGED <<sessVars, threadVars, resetVars, userVars, rlVars, failed_at, jwtVars>>
    \/ \E d \in SmsSteps :
          clockTicks < MaxSmsTicks /\ Tick(d) /\ UNCHANGED tfVars
          /\ UNCHANGED <<sessVars, threadVars, resetVars, userVars, rlVars, obsVars, jwtVars>>

SpecSmsOtp == Init /\ [][NextSmsOtp]_vars

\* tokens are created, time passes, the token created last or a forgery of
\* it is verified
NextJwt ==
    \/ \E u \in JwtUsers, t \in Tenants, e \in Emails, r \in RoleLists,
          p \in PermissionLists :
          create_access_token(u, t, e, r, p)
          /\ UNCHANGED <<sessVars, threadVars, resetVars, tfVars, userVars, rlVars,
                         obsVars, outstanding>>
    \/ \E u \in JwtUsers, t \in Tenants : create_refresh_token(u, t)
          /\ UNCHANGED <<sessVars, threadVars, resetVars, tfVars, userVars, rlVars,
                         obsVars, outstanding>>
    \/ issued.kind # "none" /\ verify_token(issued.token)
          /\ UNCHANGED <<sessVars, threadVars, resetVars, tfVars, userVars, rlVars,
                         obsVars, outstanding>>
    \/ issued.kind # "none" /\ verify_token(Forged(issued.token))
          /\ UNCHANGED <<sessVars, threadVars, resetVars, tfVars, userVars, rlVars,
                         obsVars, outstanding>>
    \/ \E d \in JwtSteps :
          clockTicks < MaxJwtTicks /\ Tick(d)
          /\ UNCHANGED <<sessVars, threadVars, resetVars, tfVars, userVars, rlVars,
                         obsVars, jwtVars>>

SpecJwt == Init /\ [][NextJwt]_vars

\* callers hold the tokens they were given, verify them and exchange them for
\* access tokens while time passes
NextJwtRefresh ==
    \/ \E u \in JwtUsers, t \in Tenants :
          /\ Cardinality(outstanding) < MaxOutstanding
          /\ create_access_token(u, t, "test@example.com", <<"admin", "viewer">>,
                                 NoList)
          /\ Received
          /\ UNCHANGED <<sessVars, threadVars, resetVars, tfVars, userVars, rlVars,
                         obsVars>>
    \/ \E u \in JwtUsers, t \in Tenants :
          /\ Cardinality(outstanding) < MaxOutstanding
          /\ create_refresh_token(u, t)
          /\ Received
          /\ UNCHANGED <<sessVars, threadVars, resetVars, tfVars, userVars, rlVars,
                         obsVars>>
    \/ \E token \in outstanding :
          /\ verify_token(token)
          /\ UNCHANGED <<sessVars, threadVars, resetVars, tfVars, userVars, rlVars,
                         obsVars, outstanding>>
    \/ \E token \in outstanding :
          /\ Cardinality(outstanding) < MaxOutstanding
          /\ refresh_access_token(token)
          /\ Received
          /\ UNCHANGED <<sessVars, threadVars, resetVars, tfVars, userVars, rlVars,
                         obsVars>>
    \/ \E token \in outstanding :
          /\ refresh_access_token(Forged(token))
          /\ UNCHANGED <<sessVars, threadVars, resetVars, tfVars, userVars, rlVars,
                         obsVars, outstanding>>
    \/ \E d \in JwtSteps :
          clockTicks < MaxJwtRefreshTicks /\ Tick(d)
          /\ UNCHANGED <<sessVars, threadVars, resetVars, tfVars, userVars, rlVars,
                         obsVars, jwtVars>>

SpecJwtRefresh == Init /\ [][NextJwtRefresh]_vars

ConfiguredTypes == DOMAIN LimitConfigs
BlockSteps == {1} \cup {LimitConfigs[T].block_seconds : T \in ConfiguredTypes}

\* the store holds no record under another key
OnlyKey(identifier, limit_type) ==
    DOMAIN limits \subseteq {LimitKey(identifier, limit_type)}

\* one key at a time, of any configured limit type, through its limit, its
\* block and the end of the block
NextBlockEnds ==
    \/ \E x \in Identifiers, T \in ConfiguredTypes :
          OnlyKey(x, T) /\ check_rate_limit(x, T)
          /\ found' = (IF LimitKey(x, T) \in DOMAIN limits
                       THEN limits[LimitKey(x, T)] ELSE NoRecord)
          /\ UNCHANGED <<sessVars, threadVars, resetVars, tfVars, userVars, obsVars, jwtVars>>
    \/ \E x \in Identifiers, T \in ConfiguredTypes, success \in BOOLEAN :
          /\ OnlyKey(x, T)
          /\ Recorded(x, T) < LimitConfigs[T].max_attempts + MaxOverLimit
          /\ record_attempt(x, T, success)
          /\ found' = NoRecord
          /\ UNCHANGED <<sessVars, threadVars, resetVars, tfVars, userVars, obsVars, jwtVars>>
    \/ \E x \in Identifiers, T \in ConfiguredTypes : reset(x, T)
          /\ found' = NoRecord
          /\ UNCHANGED <<sessVars, threadVars, resetVars, tfVars, userVars, obsVars, jwtVars>>
    \/ cleanup_expired
          /\ found' = NoRecord
          /\ UNCHANGED <<sessVars, threadVars, resetVars, tfVars, userVars, obsVars, jwtVars>>
    \/ \E d \in BlockSteps :
          clockTicks < MaxBlockTicks /\ Tick(d)
          /\ found' = NoRecord /\ UNCHANGED limits
          /\ UNCHANGED <<sessVars, threadVars, resetVars, tfVars, userVars, obsVars, jwtVars>>

SpecBlockEnds == Init /\ [][NextBlockEnds]_vars

\* the two-factor calls, one at a time
NextTwoFactor ==
    \/ \E u \in TwoFactorUsers : nextSecret <= MaxSecrets /\ setup_totp(u)
          /\ UNCHANGED <<sessVars, threadVars, resetVars, userVars, rlVars, obsVars, jwtVars>>
    \/ \E u \in TwoFactorUsers, code \in PresentedTotpCodes :
          nextBackup <= (MaxBatches - 1) * backup_code_count + 1
          /\ verify_totp_setup(u, code)
          /\ UNCHANGED <<sessVars, threadVars, resetVars, userVars, rlVars, obsVars, jwtVars>>
    \/ \E u \in TwoFactorUsers, code \in PresentedTotpCodes : verify_totp(u, code)
          /\ UNCHANGED <<sessVars, threadVars, resetVars, userVars, rlVars, obsVars, jwtVars>>
    \/ \E u \in TwoFactorUsers : disable_totp(u)
          /\ UNCHANGED <<sessVars, threadVars, resetVars, userVars, rlVars, obsVars, jwtVars>>
    \/ \E u \in TwoFactorUsers, p \in Phones, otp \in OtpCodes, ok \in BOOLEAN :
          setup_sms(u, p, otp, ok)
          /\ UNCHANGED <<sessVars, threadVars, resetVars, userVars, rlVars, obsVars, jwtVars>>
    \/ \E u \in TwoFactorUsers, otp \in OtpCodes, ok \in BOOLEAN : send_sms_otp(u, otp, ok)
          /\ UNCHANGED <<sessVars, threadVars, resetVars, userVars, rlVars, obsVars, jwtVars>>
    \/ \E u \in TwoFactorUsers, code \in OtpCodes :
          nextBackup <= (MaxBatches - 1) * backup_code_count + 1
          /\ verify_sms_setup(u, code)
          /\ UNCHANGED <<sessVars, threadVars, resetVars, userVars, rlVars, obsVars, jwtVars>>
    \/ \E u \in TwoFactorUsers, code \in OtpCodes : verify_sms_otp(u, code)
          /\ UNCHANGED <<sessVars, threadVars, resetVars, userVars, rlVars, obsVars, jwtVars>>
    \/ \E u \in TwoFactorUsers : disable_sms(u)
          /\ UNCHANGED <<sessVars, threadVars, resetVars, userVars, rlVars, obsVars, jwtVars>>
    \/ \E u \in TwoFactorUsers, code \in PresentedBackupCodes : verify_backup_code(u, code)
          /\ UNCHANGED <<sessVars, threadVars, resetVars, userVars, rlVars, obsVars, jwtVars>>
    \/ \E u \in TwoFactorUsers :
          nextBackup <= (MaxBatches - 1) * backup_code_count + 1
          /\ regenerate_backup_codes(u)
          /\ UNCHANGED <<sessVars, threadVars, resetVars, userVars, rlVars, obsVars, jwtVars>>
    \/ \E u \in TwoFactorUsers, code \in PresentedCodes, m \in Methods :
          verify_2fa(u, code, m)
          /\ UNCHANGED <<sessVars, threadVars, resetVars, userVars, rlVars, obsVars, jwtVars>>
    \/ \E d \in TwoFactorSteps :
          clockTicks < MaxTwoFactorTicks /\ Tick(d) /\ UNCHANGED tfVars
          /\ UNCHANGED <<sessVars, threadVars, resetVars, userVars, rlVars, obsVars, jwtVars>>

SpecTwoFactor == Init /\ [][NextTwoFactor]_vars

AllIdle == \A t \in Threads : pc[t] = "idle"

\* SMS two-factor is set up, then threads verify backup codes concurrently
NextBackupCodeThreads ==
    \/ \E u \in TwoFactorUsers, p \in Phones, otp \in OtpCodes, ok \in BOOLEAN :
          AllIdle /\ setup_sms(u, p, otp, ok) /\ UNCHANGED threadVars
          /\ UNCHANGED <<sessVars, resetVars, userVars, rlVars, obsVars, jwtVars>>
    \/ \E u \in TwoFactorUsers, code \in OtpCodes :
          /\ AllIdle
          /\ nextBackup <= (MaxBatches - 1) * backup_code_count + 1
          /\ verify_sms_setup(u, code)
          /\ UNCHANGED threadVars
          /\ UNCHANGED <<sessVars, resetVars, userVars, rlVars, obsVars, jwtVars>>
    \/ \E u \in TwoFactorUsers :
          /\ AllIdle
          /\ nextBackup <= (MaxBatches - 1) * backup_code_count + 1
          /\ regenerate_backup_codes(u)
          /\ UNCHANGED threadVars
          /\ UNCHANGED <<sessVars, resetVars, userVars, rlVars, obsVars, jwtVars>>
    \/ \E t \in Threads, u \in TwoFactorUsers, code \in PresentedBackupCodes,
           through_2fa \in BOOLEAN : vbc_call(t, u, code, through_2fa)
           /\ UNCHANGED <<sessVars, resetVars, userVars, rlVars, obsVars, jwtVars>>
    \/ \E t \in Threads : vbc_get(t)
          /\ UNCHANGED <<sessVars, resetVars, userVars, rlVars, obsVars, jwtVars>>
    \/ \E t \in Threads : vbc_test(t)
          /\ UNCHANGED <<sessVars, resetVars, userVars, rlVars, obsVars, jwtVars>>
    \/ \E t \in Threads : vbc_remove(t)
          /\ UNCHANGED <<sessVars, resetVars, userVars, rlVars, obsVars, jwtVars>>

SpecBackupCodeThreads == Init /\ [][NextBackupCodeThreads]_vars

\* ================================================== claims on sessions
ActiveSet(u, S) == {sid \in DOMAIN S : S[sid].user_id = u /\ S[sid].is_active}

Evicted == {sid \in DOMAIN sessions :
               sessions[sid].is_active /\ ~sessions'[sid].is_active}

\* C4: when create_session lifts a user's active sessions above
\* max_sessions_per_user, the sessions it invalidates are exactly the excess
\* ones, none of them more recently active than a session it keeps, each is
\* tagged session_limit_exceeded, and the new session is still active.
C4_EvictsLeastRecentlyActive ==
    [][\A u \in Users :
         (create_session(u)
            /\ Cardinality(ActiveSet(u, sessions)) + 1 > max_sessions_per_user)
         => /\ Cardinality(Evicted) =
                  Cardinality(ActiveSet(u, sessions)) + 1 - max_sessions_per_user
            /\ \A e \in Evicted :
                  /\ sessions[e].user_id = u
                  /\ sessions'[e].invalidation_reason = "session_limit_exceeded"
                  /\ \A k \in ActiveSet(u, sessions) \ Evicted :
                        sessions[e].last_activity_at <= sessions[k].last_activity_at
            /\ nextSid \in ActiveSet(u, sessions')]_vars

C4_Witness ==
    /\ lastOp.op = "create_session"
    /\ lastOp.ret \in DOMAIN sessions
    /\ sessions[lastOp.ret].is_active
    /\ \E e, k \in DOMAIN sessions :
          /\ e > k
          /\ sessions[e].invalidation_reason = "session_limit_exceeded"
          /\ sessions[k].is_active
          /\ sessions[k].user_id = sessions[e].user_id

\* C5: invalidate_all_user_sessions(u, except=S) with S an active session of
\* u leaves S the only active session of u, returns the number of sessions
\* it turned inactive, and changes no session of another user.
C5_LogoutAllKeepsException ==
    [][\A u \in Users, e \in SessIds :
         (invalidate_all_user_sessions(u, e) /\ e \in ActiveSet(u, sessions))
         => /\ ActiveSet(u, sessions') = {e}
            /\ lastOp'.ret = Cardinality(ActiveSet(u, sessions) \ {e})
            /\ DOMAIN sessions' = DOMAIN sessions
            /\ \A sid \in DOMAIN sessions :
                  sessions[sid].user_id # u => sessions'[sid] = sessions[sid]
            /\ user_sessions' = user_sessions]_vars

C5_Witness ==
    /\ lastOp.op = "invalidate_all_user_sessions"
    /\ lastOp.ret = 1
    /\ \E u, v \in Users :
          /\ u # v
          /\ Cardinality(ActiveSet(u, sessions)) = 1
          /\ ActiveSet(v, sessions) # {}
          /\ \E sid \in DOMAIN sessions :
                /\ sessions[sid].user_id = u
                /\ sessions[sid].invalidation_reason = "logout_all"

\* C6: validate_session invalidates an active session that is past
\* expires_at with reason expired and returns none; returns none and changes
\* nothing for an inactive or unknown session; returns the record of an
\* active unexpired session and sets its last_activity_at to the current time.
C6_ValidateOutcomes ==
    [][\A sid \in SessIds :
         validate_session(sid)
         => IF sid \notin DOMAIN sessions \/ ~sessions[sid].is_active
            THEN lastOp'.ret = NoSession /\ sessions' = sessions
            ELSE IF now > sessions[sid].expires_at
            THEN /\ lastOp'.ret = NoSession
                 /\ sessions' = [sessions EXCEPT
                                    ![sid].is_active = FALSE,
                                    ![sid].invalidated_at = now,
                                    ![sid].invalidation_reason = "expired"]
            ELSE /\ lastOp'.ret = sid
                 /\ sessions' = [sessions EXCEPT ![sid].last_activity_at = now]]_vars

C6_Witness ==
    /\ lastOp.op = "validate_session"
    /\ lastOp.ret = NoSession
    /\ \E sid \in DOMAIN sessions :
          /\ sessions[sid].invalidation_reason = "expired"
          /\ sessions[sid].invalidated_at = now
          /\ now > sessions[sid].expires_at

\* C7: the first invalidate_session on an active session returns true and
\* records invalidated_at and the reason; a call on an inactive session
\* returns false and leaves every session as it was.
C7_InvalidateIdempotent ==
    [][\A sid \in SessIds, r \in AnyReasons :
         (invalidate_session(sid, r) /\ sid \in DOMAIN sessions)
         => IF sessions[sid].is_active
            THEN /\ lastOp'.ret = TRUE
                 /\ sessions' = [sessions EXCEPT
                                    ![sid].is_active = FALSE,
                                    ![sid].invalidated_at = now,
                                    ![sid].invalidation_reason = r]
            ELSE /\ lastOp'.ret = FALSE
                 /\ sessions' = sessions]_vars

C7_Witness ==
    /\ lastOp.op = "invalidate_session"
    /\ lastOp.ret = FALSE
    /\ \E sid \in DOMAIN sessions :
          /\ sessions[sid].invalidation_reason \in AnyReasons
          /\ sessions[sid].invalidated_at < now

RetentionExceeded(s, t) ==
    \/ t - s.expires_at > Days(cleanup_retention_days)
    \/ s.invalidated_at # NoTime
           /\ t - s.invalidated_at > Days(cleanup_retention_days)

\* C8: cleanup_expired_sessions removes a record only if it has
\* been expired or invalidated for longer than the retention window.
C8_RemovesOnlyPastRetention ==
    [][cleanup_expired_sessions
         => \A sid \in DOMAIN sessions \ DOMAIN sessions' :
               RetentionExceeded(sessions[sid], now)]_vars

\* C3: once every pending create_session has returned, no user has more than
\* max_sessions_per_user sessions with is_active = true.
C3_ActiveSessionsWithinLimit ==
    (\A t \in Threads : pc[t] = "idle")
    => \A u \in Users :
          Cardinality(ActiveSet(u, sessions)) <= max_sessions_per_user

\* ============================================ claims on password reset
AcceptedTokens(u) ==
    {raw \in RawTokens :
        /\ validated_token(tokens, raw, now) = raw
        /\ tokens[hash_token(raw)].user_id = u}

\* C9: at any time each user has at most one reset token that
\* validate_reset_token accepts.
C9_OneActiveTokenPerUser ==
    \A u \in Users : Cardinality(AcceptedTokens(u)) <= 1

C9_Witness ==
    /\ lastOp.op = "request_password_reset"
    /\ \E u \in Users, old, new \in RawTokens :
          /\ old < new
          /\ hash_token(old) \in DOMAIN tokens
          /\ tokens[hash_token(old)].user_id = u
          /\ now <= tokens[hash_token(old)].expires_at
          /\ validated_token(tokens, old, now) = NoToken
          /\ AcceptedTokens(u) = {new}

\* C10: a reset_password that returns a user id leaves the token marked used
\* and the user without an entry in the active-token index, and every later
\* validate_reset_token or reset_password with that raw token returns none.
C10_TokenRedeemsOnce ==
    [][\A raw \in RawTokens :
         /\ (reset_password(raw) /\ lastOp'.ret # NoUser)
               => /\ tokens'[hash_token(raw)].used
                  /\ lastOp'.ret \notin DOMAIN user_tokens'
                  /\ lastOp'.ret = tokens[hash_token(raw)].user_id
         /\ (raw \in redeemed /\ validate_reset_token(raw))
               => lastOp'.ret = NoToken
         /\ (raw \in redeemed /\ reset_password(raw))
               => lastOp'.ret = NoUser /\ UNCHANGED resetVars]_vars

C10_Witness ==
    /\ lastOp.op = "reset_password"
    /\ lastOp.ret = NoUser
    /\ \E raw \in redeemed :
          /\ hash_token(raw) \in DOMAIN tokens
          /\ now <= tokens[hash_token(raw)].expires_at

\* C11: of the concurrent reset_password calls made with the same raw token,
\* at most one returns a user id.
C11_TokenRedeemsOnceConcurrently ==
    \A raw \in RawTokens :
        Cardinality({t \in Threads : /\ pc[t] = "rp_done"
                                     /\ frame[t].token = raw
                                     /\ frame[t].result # NoUser}) <= 1

\* C12: reset_password with a stored raw token that is past expires_at
\* returns none, does not invoke the password hash function and leaves the
\* token record and the active-token index unchanged;
\* reset_password_with_token then returns false and leaves every user's
\* password_hash unchanged.
C12_ExpiredTokenChangesNothing ==
    [][\A raw \in FewRawTokens :
         (/\ hash_token(raw) \in DOMAIN tokens
          /\ now > tokens[hash_token(raw)].expires_at)
         => /\ reset_password(raw)
                 => /\ lastOp'.ret = NoUser
                    /\ UNCHANGED <<tokens, user_tokens, nextSalt>>
            /\ \A password \in Passwords :
                 reset_password_with_token(raw, password)
                 => /\ lastOp'.ret = FALSE
                    /\ UNCHANGED <<tokens, user_tokens, nextSalt, users>>]_vars

\* both users hold an unused token past its expiry and a reset through the
\* credential store has just been refused
C12_Witness ==
    /\ lastOp = [op |-> "reset_password_with_token", ret |-> FALSE]
    /\ \A raw \in FewRawTokens :
          /\ hash_token(raw) \in DOMAIN tokens
          /\ ~tokens[hash_token(raw)].used
          /\ now > tokens[hash_token(raw)].expires_at
          /\ tokens[hash_token(raw)].user_id \in DOMAIN users

\* =========================================== claims on failed dispatch
\* the OTP stored for u is accepted at time t
OtpAccepted(O, u, otp, t) == verify_sms_otp_on(O, u, otp, t)[2]

\* C13: when the notifier reports failure, request_password_reset,
\* send_sms_otp and setup_sms return false and the token or OTP they stored
\* stays: the token passes validate_reset_token and the OTP passes
\* verify_sms_otp up to its expiry, and afterwards it is only lost to expiry
\* or to a call that supersedes or consumes it.
C13_FailedDispatchKeepsState ==
    [][\A u \in TwoFactorUsers :
         /\ lastOp'.op = "request_password_reset"
              => (request_password_reset(u, FALSE)
                  => /\ lastOp'.ret = FALSE
                     /\ hash_token(nextToken) \in DOMAIN tokens'
                     /\ \A t \in {now, tokens'[hash_token(nextToken)].expires_at} :
                           validated_token(tokens', nextToken, t) = nextToken)
         /\ lastOp'.op = "send_sms_otp"
              => \A otp \in OtpCodes :
                    send_sms_otp(u, otp, FALSE)
                    => /\ lastOp'.ret = FALSE
                       /\ \A t \in {now, now + Minutes(sms_otp_expire_minutes)} :
                             OtpAccepted(sms_otps', u, otp, t)
         /\ lastOp'.op = "setup_sms"
              => \A otp \in OtpCodes, p \in Phones :
                    setup_sms(u, p, otp, FALSE)
                    => /\ lastOp'.ret = FALSE
                       /\ \A t \in {now, now + Minutes(sms_otp_expire_minutes)} :
                             OtpAccepted(sms_otps', u, otp, t)
         /\ \A raw \in FewRawTokens :
               (/\ validated_token(tokens, raw, now) # NoToken
                /\ validated_token(tokens', raw, now') = NoToken)
               => \/ now' > tokens[hash_token(raw)].expires_at
                  \/ lastOp'.op \in {"request_password_reset",
                                     "cancel_reset_request", "reset_password"}
         /\ (/\ u \in DOMAIN sms_otps
             /\ u \notin DOMAIN sms_otps' \/ sms_otps'[u] # sms_otps[u])
               => lastOp'.op \in {"send_sms_otp", "setup_sms",
                                  "verify_sms_otp", "verify_sms_setup"}]_vars

\* a reset request has just reported a failed dispatch: its token validates,
\* and an OTP is outstanding
C13_Witness ==
    /\ lastOp = [op |-> "request_password_reset", ret |-> FALSE]
    /\ validated_token(tokens, nextToken - 1, now) = nextToken - 1
    /\ \E u \in DOMAIN sms_otps : now <= sms_otps[u].expiry

\* ================================================ claims on rate limits
\* the last max_attempts failed logins of x lie within one window length,
\* and so does the time t of the check that follows them
FailedLoginsInWindow(x, t) ==
    LET config == LimitConfigs["login"]
        n == Len(failed_at[x])
    IN  /\ n >= config.max_attempts
        /\ t - failed_at[x][n - config.max_attempts + 1] <= config.window_seconds

\* C14: after max_attempts failed login attempts of X recorded within
\* window_seconds of each other, a check_rate_limit(X, "login") made within
\* that same span raises RateLimitExceeded.
C14_FailedLoginsBlock ==
    [][\A x \in Identifiers :
         (FailedLoginsInWindow(x, now) /\ check_rate_limit(x, "login"))
         => lastOp'.ret[1] = "RateLimitExceeded"]_vars

ResettingTypes == {"login", "2fa"}

\* C15: a successful record_attempt on login or 2fa leaves the key with no
\* attempts and no block, so that a check_rate_limit that follows is allowed
\* with remaining = max_attempts; on any other limit type a successful
\* record_attempt adds one attempt exactly as a failed one does.
C15_SuccessResetsLoginAnd2fa ==
    [][lastOp'.op = "record_attempt"
       => \A x \in Identifiers, T \in LimitTypes :
            record_attempt(x, T, TRUE)
            => LET key == LimitKey(x, T)
                   config == LimitConfigs[T]
               IN  IF T \in ResettingTypes
                   THEN /\ limits'[key] = LimitRecord(0, now, NoBlock)
                        /\ \A d \in {0} \cup RateSteps :
                             check_rate_limit_on(limits', x, T, now + d)[2]
                               = <<"allowed", config.max_attempts>>
                   ELSE /\ limits'[key].attempts = Recorded(x, T) + 1
                        /\ limits'
                             = record_attempt_on(limits, x, T, FALSE, now)[1]
                        /\ lastOp'.ret
                             = record_attempt_on(limits, x, T, FALSE, now)[2]]_vars

\* a success has just been recorded for a login key
C15_Witness ==
    /\ lastOp = [op |-> "record_attempt",
                 ret |-> LimitConfigs["login"].max_attempts]
    /\ \E x \in Identifiers :
          /\ LimitKey(x, "login") \in DOMAIN limits
          /\ limits[LimitKey(x, "login")] = LimitRecord(0, now, NoBlock)
          /\ now > 0

\* C16: a record_attempt that does not reset the key, made after the key's
\* window has elapsed, starts a fresh window: afterwards the attempt count is
\* 1 and the window starts at the time of that call.
C16_RecordStartsFreshWindow ==
    [][lastOp'.op = "record_attempt"
       => \A x \in Identifiers, T \in LimitTypes, success \in BOOLEAN :
            LET key == LimitKey(x, T)
            IN  (/\ key \in DOMAIN limits
                 /\ now - limits[key].first_attempt
                      > LimitConfigs[T].window_seconds
                 /\ ~(success /\ T \in ResettingTypes)
                 /\ record_attempt(x, T, success))
                => /\ limits'[key].attempts = 1
                   /\ limits'[key].first_attempt = now]_vars

\* the key is blocked at time t
BlockedAt(L, key, t) ==
    /\ key \in DOMAIN L
    /\ L[key].blocked_until # NoBlock
    /\ t < L[key].blocked_until

\* C17: a block is set by check_rate_limit only, for block_seconds from the
\* time of that check; while it lasts every check_rate_limit on the key raises
\* RateLimitExceeded, and no call other than reset or a successful login/2fa
\* record_attempt on the key takes it away, whether or not the attempt window
\* has elapsed.
C17_BlockOutlastsWindow ==
    [][\A x \in Identifiers, T \in LimitTypes :
         LET key == LimitKey(x, T)
         IN  /\ (BlockedAt(limits, key, now) /\ check_rate_limit(x, T))
                   => lastOp'.ret[1] = "RateLimitExceeded"
             /\ (/\ BlockedAt(limits, key, now)
                 /\ now' < limits[key].blocked_until
                 /\ ~reset(x, T)
                 /\ ~(T \in ResettingTypes /\ record_attempt(x, T, TRUE)))
                   => /\ key \in DOMAIN limits'
                      /\ limits'[key].blocked_until = limits[key].blocked_until
             /\ (~BlockedAt(limits, key, now) /\ BlockedAt(limits', key, now'))
                   => /\ check_rate_limit(x, T)
                      /\ limits'[key].blocked_until
                           = now + LimitConfigs[T].block_seconds]_vars

\* a check made after the window has elapsed, with a failed attempt recorded
\* since the block was set, has just been refused
C17_Witness ==
    \E x \in Identifiers, T \in LimitTypes :
        LET key == LimitKey(x, T)
            config == LimitConfigs[T]
        IN  /\ BlockedAt(limits, key, now)
            /\ limits[key].attempts > config.max_attempts
            /\ now - limits[key].first_attempt > config.window_seconds
            /\ lastOp = [op |-> "check_rate_limit",
                         ret |-> <<"RateLimitExceeded",
                                   limits[key].blocked_until - now>>]

\* C18: when N record_attempt(X, 'login', success=False) calls on one key
\* have run, concurrently or not, and all have returned, the stored attempt
\* count of the key has grown by exactly N.
C18_ConcurrentAttemptsAllCounted ==
    (\A t \in Threads : pc[t] = "idle")
    => \A x \in Identifiers :
         Recorded(x, "login") = Len(failed_at[x])

\* ======================================== claims on verify_2fa's method order
\* method m is switched on in the user's configuration
MethodEnabled(config, m) ==
    \/ m = "totp" /\ config.is_totp_enabled
    \/ m = "sms" /\ config.is_sms_enabled

\* C19: verify_2fa(u, code, method=m) with m given and enabled for u returns
\* what verify_totp / verify_sms_otp returns for m and has that call's effect
\* only: the other method's state and the backup codes are untouched, and a
\* code that is a valid unused backup code is refused and stays in the list.
C19_ExplicitMethodOnly ==
    [][lastOp'.op = "verify_2fa"
       => LET u == called'.user
              code == called'.code
              m == called'.method
          IN  (u \in DOMAIN configs /\ MethodEnabled(configs[u], m))
              => /\ configs' = configs
                 /\ m = "totp"
                      => /\ lastOp'.ret = totp_accepts(configs, u, code, now)
                         /\ sms_otps' = sms_otps
                 /\ m = "sms"
                      => /\ lastOp'.ret
                              = verify_sms_otp_on(sms_otps, u, code, now)[2]
                         /\ sms_otps'
                              = verify_sms_otp_on(sms_otps, u, code, now)[1]
                 /\ hash_backup_code(code) \in Range(configs[u].backup_codes)
                      => /\ lastOp'.ret = FALSE
                         /\ configs'[u].backup_codes
                              = configs[u].backup_codes]_vars

\* an unused backup code has just been refused by verify_2fa(method="totp")
C19_Witness ==
    /\ lastOp = [op |-> "verify_2fa", ret |-> FALSE]
    /\ called.method = "totp"
    /\ called.user \in DOMAIN configs
    /\ configs[called.user].is_totp_enabled
    /\ hash_backup_code(called.code)
          \in Range(configs[called.user].backup_codes)

\* the steps of auto-detection in their order: the preferred method, the
\* other enabled methods, the backup codes
Verify2faOrder(config) ==
    LET pref == config.preferred_method
        first == IF MethodEnabled(config, pref) THEN <<pref>> ELSE <<>>
        others == SelectSeq(<<"totp", "sms">>,
                            LAMBDA m : MethodEnabled(config, m) /\ m # pref)
    IN  first \o others \o <<"backup">>

\* the step accepts the code, run on its own in the current state
StepAccepts(step, u, code) ==
    CASE step = "totp" -> totp_accepts(configs, u, code, now)
      [] step = "sms" -> verify_sms_otp_on(sms_otps, u, code, now)[2]
      [] step = "backup" -> verify_backup_code_on(configs, u, code)[2]

C21_SetupTotpKeepsAcceptedCodes ==
    [][lastOp'.op = "setup_totp"
       => \A u \in TwoFactorUsers :
            setup_totp(u)
            => \A secret \in 1..nextSecret, d \in {-1, 0, 1} :
                 LET code == TotpCode(secret, (now \div totp_interval) + d)
                 IN  totp_accepts(configs', u, code, now)
                       = totp_accepts(configs, u, code, now)]_vars

\* C22: a successful verify_totp_setup sets preferred_method only if it was
\* unset: a preference the user already has (sms, for a user with SMS
\* enabled) is still there afterwards.
C22_TotpSetupKeepsPreference ==
    [][lastOp' = [op |-> "verify_totp_setup", ret |-> TRUE]
       => \A u \in DOMAIN configs, code \in PresentedTotpCodes :
            verify_totp_setup(u, code)
            => configs'[u].preferred_method
                 = IF configs[u].preferred_method = "None" THEN "totp"
                   ELSE configs[u].preferred_method]_vars

\* C23: a successful verify_totp_setup generates exactly backup_code_count
\* backup codes when the user has none, and otherwise leaves the stored
\* backup codes as they are, so that an unused code issued earlier is still
\* accepted by verify_backup_code.
C23_TotpSetupKeepsBackupCodes ==
    [][lastOp' = [op |-> "verify_totp_setup", ret |-> TRUE]
       => \A u \in DOMAIN configs, code \in PresentedTotpCodes :
            verify_totp_setup(u, code)
            => IF configs[u].backup_codes = <<>>
               THEN Len(configs'[u].backup_codes) = backup_code_count
               ELSE /\ configs'[u].backup_codes = configs[u].backup_codes
                    /\ \A n \in 1..(nextBackup - 1) :
                         verify_backup_code_on(configs', u, BackupCode(n))[2]
                           = verify_backup_code_on(configs, u, BackupCode(n))[2]]_vars

\* C24: disable_totp clears the TOTP secret and the enabled flag; when TOTP
\* was the preferred method the preference becomes sms if SMS is enabled and
\* none otherwise, and a different preference is kept; disable_sms does the
\* same with the roles of the two methods exchanged; when the method switched
\* off was the only one enabled, is_2fa_enabled is false afterwards.
C24_DisableFallsBack ==
    [][lastOp'.op \in {"disable_totp", "disable_sms"}
       => \A u \in DOMAIN configs :
            LET old == configs[u]
                new == configs'[u]
            IN  /\ disable_totp(u)
                     => /\ lastOp'.ret = TRUE
                        /\ ~new.is_totp_enabled
                        /\ new.totp_secret = NoSecret
                        /\ new.preferred_method
                             = IF old.preferred_method = "totp"
                               THEN (IF old.is_sms_enabled THEN "sms" ELSE "None")
                               ELSE old.preferred_method
                        /\ new.is_sms_enabled = old.is_sms_enabled
                        /\ new.phone_number = old.phone_number
                        /\ new.backup_codes = old.backup_codes
                        /\ ~old.is_sms_enabled => ~is_2fa_enabled(configs', u)
                /\ disable_sms(u)
                     => /\ lastOp'.ret = TRUE
                        /\ ~new.is_sms_enabled
                        /\ new.phone_number = NoPhone
                        /\ new.preferred_method
                             = IF old.preferred_method = "sms"
                               THEN (IF old.is_totp_enabled THEN "totp" ELSE "None")
                               ELSE old.preferred_method
                        /\ new.is_totp_enabled = old.is_totp_enabled
                        /\ new.totp_secret = old.totp_secret
                        /\ new.backup_codes = old.backup_codes
                        /\ ~old.is_totp_enabled => ~is_2fa_enabled(configs', u)]_vars

\* TOTP has just been switched off for a user who keeps SMS, with the
\* preference on sms
C24_Witness ==
    /\ lastOp = [op |-> "disable_totp", ret |-> TRUE]
    /\ \E u \in DOMAIN configs :
          /\ ~configs[u].is_totp_enabled
          /\ configs[u].totp_secret = NoSecret
          /\ configs[u].is_sms_enabled
          /\ configs[u].preferred_method = "sms"
          /\ is_2fa_enabled(configs, u)

\* C25: disable_sms for a user whose SMS two-factor was never enabled returns
\* false and leaves the user's configuration as it is, also when the
\* configuration exists because the user set up or enabled TOTP. (No
\* behaviour of SpecTotpOnly ever enables SMS.)
C25_DisableSmsNeverEnabledIsNoOp ==
    [][lastOp'.op = "disable_sms"
       => \A u \in TwoFactorUsers :
            (/\ u \in DOMAIN configs => ~configs[u].is_sms_enabled
             /\ disable_sms(u))
            => /\ lastOp'.ret = FALSE
               /\ configs' = configs]_vars

\* ================================================== claims on SMS OTPs
SmsVerifications == {"verify_sms_otp", "verify_sms_setup", "verify_2fa"}

\* the call verifies the code against the OTP store: verify_2fa does so only
\* for a user with SMS enabled
RunsSmsStep(op, u) ==
    op = "verify_2fa" => (u \in DOMAIN configs /\ configs[u].is_sms_enabled)

\* C26: an SMS OTP cannot be replayed: once a verification (verify_sms_otp,
\* verify_sms_setup or verify_2fa) has returned true for a code, a further
\* verification with that code returns false until a new OTP is sent; and an
\* OTP presented after its expiry is rejected and removed from the store.
C26_SmsOtpNotReplayable ==
    [][lastOp'.op \in SmsVerifications
       => LET u == called'.user
              code == called'.code
              log == sent[u]
              n == Len(log)
          IN  /\ (n > 0 /\ log[n].used /\ code = log[n].code)
                   => lastOp'.ret = FALSE
              /\ (/\ u \in DOMAIN sms_otps
                  /\ now > sms_otps[u].expiry
                  /\ RunsSmsStep(lastOp'.op, u))
                   => /\ lastOp'.ret = FALSE
                      /\ u \notin DOMAIN sms_otps']_vars

\* the code accepted before has just been presented again and refused,
\* within the five minutes after it was sent
C26_Witness ==
    /\ lastOp = [op |-> "verify_sms_otp", ret |-> FALSE]
    /\ LET log == sent[called.user]
       IN  /\ log # <<>>
           /\ log[Len(log)].used
           /\ called.code = log[Len(log)].code
           /\ now <= log[Len(log)].at + Minutes(sms_otp_expire_minutes)

\* C27: a user has at most one outstanding SMS OTP: send_sms_otp and setup_sms
\* store the new code in place of the previous one, with five minutes to
\* live, and a verification accepts no code but the one sent last; an
\* earlier, different code is refused although its own five minutes have not
\* passed.
C27_LatestOtpOnly ==
    [][/\ lastOp'.op \in {"send_sms_otp", "setup_sms"}
          => \A u \in TwoFactorUsers :
               Len(sent'[u]) > Len(sent[u])
               => /\ u \in DOMAIN sms_otps'
                  /\ sms_otps'[u]
                       = [code |-> sent'[u][Len(sent'[u])].code,
                          expiry |-> now + Minutes(sms_otp_expire_minutes)]
       /\ lastOp'.op \in SmsVerifications
          => LET u == called'.user
                 code == called'.code
                 log == sent[u]
                 n == Len(log)
             IN  (n = 0 \/ code # log[n].code) => lastOp'.ret = FALSE]_vars

\* the code of the send before the last has just been refused within its own
\* five minutes, and the code sent last is still outstanding
C27_Witness ==
    /\ lastOp = [op |-> "verify_sms_otp", ret |-> FALSE]
    /\ LET u == called.user
           log == sent[u]
           n == Len(log)
       IN  /\ n >= 2
           /\ called.code = log[n - 1].code
           /\ called.code # log[n].code
           /\ ~log[n - 1].used
           /\ now <= log[n - 1].at + Minutes(sms_otp_expire_minutes)
           /\ u \in DOMAIN sms_otps
           /\ sms_otps[u].code = log[n].code

\* C28: regenerate_backup_codes for a user with a configuration stores
\* exactly backup_code_count codes, all new, in place of the old list, so
\* that verify_backup_code refuses every code issued before the call; for a
\* user without a configuration it raises an error and creates none.
C28_RegenerateReplacesCodes ==
    [][lastOp'.op = "regenerate_backup_codes"
       => \A u \in TwoFactorUsers :
            regenerate_backup_codes(u)
            => IF u \in DOMAIN configs
               THEN /\ Len(configs'[u].backup_codes) = backup_code_count
                    /\ Cardinality(Range(configs'[u].backup_codes))
                         = backup_code_count
                    /\ \A n \in 1..(nextBackup - 1) :
                         ~verify_backup_code_on(configs', u, BackupCode(n))[2]
                    /\ \A n \in nextBackup..(nextBackup' - 1) :
                         verify_backup_code_on(configs', u, BackupCode(n))[2]
               ELSE /\ lastOp'.ret = "ValueError"
                    /\ configs' = configs]_vars

\* a list issued earlier has just been replaced
C28_Witness ==
    /\ lastOp = [op |-> "regenerate_backup_codes", ret |-> "codes"]
    /\ nextBackup > 2 * backup_code_count
    /\ \E u \in DOMAIN configs :
          /\ configs[u].backup_codes
               = generate_backup_codes(nextBackup - backup_code_count)
          /\ ~verify_backup_code_on(configs, u, BackupCode(1))[2]

\* C29: when several callers verify the same backup code concurrently, every
\* caller that has finished has returned true or false: none has ended with
\* an exception.
C29_LosersReturnFalse ==
    \A t \in Threads :
        pc[t] = "done" => frame[t].result \in {"True", "False"}

\* C33: a session whose is_active is false is never active again, whichever
\* of create_session, validate_session, refresh_session, invalidate_session,
\* invalidate_all_user_sessions and cleanup_expired_sessions is called and
\* however much time passes; a record that was removed does not come back;
\* refresh_session on the session returns false and leaves expires_at and
\* last_activity_at as they are; validate_session on it returns none.
C33_InvalidationIsPermanent ==
    [][\A sid \in 1..(nextSid - 1) :
          IF sid \notin DOMAIN sessions THEN sid \notin DOMAIN sessions'
          ELSE ~sessions[sid].is_active
               => /\ sid \in DOMAIN sessions' => ~sessions'[sid].is_active
                  /\ \A e \in ExtendHours :
                        refresh_session(sid, e)
                        => /\ lastOp'.ret = FALSE
                           /\ sessions'[sid].expires_at
                                = sessions[sid].expires_at
                           /\ sessions'[sid].last_activity_at
                                = sessions[sid].last_activity_at
                  /\ validate_session(sid) => lastOp'.ret = NoSession]_vars

\* every session created is on record and inactive, one of them invalidated
\* some time ago, and refresh_session has just returned false
C33_Witness ==
    /\ lastOp = [op |-> "refresh_session", ret |-> FALSE]
    /\ DOMAIN sessions = FewSessIds
    /\ \A sid \in DOMAIN sessions : ~sessions[sid].is_active
    /\ \E sid \in DOMAIN sessions :
          /\ sessions[sid].invalidated_at # NoTime
          /\ sessions[sid].invalidated_at < now
          /\ now <= sessions[sid].expires_at

\* validate_session(sid) at time t on the dictionary S would return the session
WouldValidate(S, sid, t) ==
    sid \in DOMAIN S /\ S[sid].is_active /\ ~is_expired(S[sid], t)

\* C34: once the current time has passed the expires_at of a session, no
\* call and no passage of time leads to a state in which validate_session
\* returns that session.
C34_ExpiryTerminates ==
    [][\A sid \in FewSessIds :
          (sid \in DOMAIN sessions /\ is_expired(sessions[sid], now))
          => ~WouldValidate(sessions', sid, now')]_vars

\* C35: in every state reached through setup_totp, verify_totp_setup,
\* setup_sms, verify_sms_setup, disable_totp, disable_sms and verify_2fa, the
\* preferred_method of a configuration is None exactly when neither TOTP nor
\* SMS is enabled, and otherwise it is totp or sms and that method is enabled.
C35_PreferredNamesEnabledMethod ==
    \A u \in DOMAIN configs :
        /\ configs[u].preferred_method \in {"None", "totp", "sms"}
        /\ configs[u].preferred_method = "None" <=> ~is_enabled(configs[u])
        /\ configs[u].preferred_method = "totp" => configs[u].is_totp_enabled
        /\ configs[u].preferred_method = "sms" => configs[u].is_sms_enabled

\* disable_sms has just switched off the only method of a user who had
\* completed a setup: nothing is enabled and nothing is preferred
C35_Witness ==
    /\ lastOp = [op |-> "disable_sms", ret |-> TRUE]
    /\ \E u \in DOMAIN configs :
          /\ configs[u].backup_codes # <<>>
          /\ ~is_enabled(configs[u])
          /\ configs[u].totp_secret = NoSecret
          /\ configs[u].preferred_method = "None"

\* C36: in every reachable state a configuration with is_totp_enabled has a
\* totp_secret and a configuration with is_sms_enabled has a phone_number.
C36_EnabledMethodHasCredential ==
    \A u \in DOMAIN configs :
        /\ configs[u].is_totp_enabled => configs[u].totp_secret # NoSecret
        /\ configs[u].is_sms_enabled => configs[u].phone_number # NoPhone

\* C37: verify_2fa for a user who has no configuration, or whose
\* configuration has neither TOTP nor SMS enabled, returns false for every
\* code and every method argument and leaves the configurations, with their
\* backup codes, and the pending SMS OTPs as they are.
C37_NothingEnabledNothingAccepted ==
    [][lastOp'.op = "verify_2fa"
       => \A u \in TwoFactorUsers, code \in LoginCodes, m \in Methods :
             (/\ ~is_2fa_enabled(configs, u)
              /\ verify_2fa(u, code, m))
             => /\ lastOp'.ret = FALSE
                /\ configs' = configs
                /\ sms_otps' = sms_otps]_vars

\* verify_2fa has just refused a backup code that is stored and unused, for
\* a user whose methods have all been disabled
C37_Witness ==
    /\ lastOp = [op |-> "verify_2fa", ret |-> FALSE]
    /\ called.user \in DOMAIN configs
    /\ ~is_enabled(configs[called.user])
    /\ \E i \in DOMAIN configs[called.user].backup_codes :
          configs[called.user].backup_codes[i] = hash_backup_code(called.code)

\* C38: whenever check_rate_limit(X, T) would raise because the block of the
\* key is in force (now < blocked_until), get_status(X, T) at the same time
\* reports blocked = true and retry_after > 0.
C38_StatusAgreesOnBlocks ==
    \A x \in Identifiers, T \in LimitTypes :
        LET key == LimitKey(x, T)
        IN  (/\ key \in DOMAIN limits
             /\ limits[key].blocked_until # NoBlock
             /\ now < limits[key].blocked_until
             /\ check_rate_limit_on(limits, x, T, now)[2][1]
                  = "RateLimitExceeded")
            => /\ status_of(limits, x, T, now).blocked
               /\ status_of(limits, x, T, now).retry_after > 0

\* C39: for every configured limit type, check_rate_limit(X, T) at a time
\* strictly later than the blocked_until of the record of (X, T) is allowed
\* and returns remaining = max_attempts, whatever attempts the record counts.
C39_BlockEnds ==
    [][\A x \in Identifiers, T \in ConfiguredTypes :
          (/\ LimitKey(x, T) \in DOMAIN limits
           /\ limits[LimitKey(x, T)].blocked_until # NoBlock
           /\ now > limits[LimitKey(x, T)].blocked_until
           /\ check_rate_limit(x, T))
          => lastOp'.ret = <<"allowed", LimitConfigs[T].max_attempts>>]_vars

\* check_rate_limit has just allowed a key whose record held a block that
\* had ended and counted more attempts than the limit, some of them recorded
\* after the block was set
C39_Witness ==
    /\ lastOp.op = "check_rate_limit"
    /\ lastOp.ret[1] = "allowed"
    /\ found.blocked_until # NoBlock
    /\ now > found.blocked_until
    /\ \E k \in DOMAIN limits :
          /\ found.attempts > LimitConfigs[k[1]].max_attempts
          /\ limits[k] = LimitRecord(0, now, NoBlock)
          /\ lastOp.ret[2] = LimitConfigs[k[1]].max_attempts

\* C40: cleanup_expired keeps every record whose block is still in force, and
\* for every identifier and limit type a check_rate_limit made right after
\* it has the outcome (allowed or raised, remaining, retry_after) that the
\* same check would have had without the cleanup.
C40_CleanupIsNeutral ==
    [][(lastOp'.op = "cleanup_expired" /\ cleanup_expired)
       => /\ \A k \in DOMAIN limits :
                (/\ limits[k].blocked_until # NoBlock
                 /\ now < limits[k].blocked_until)
                => k \in DOMAIN limits' /\ limits'[k] = limits[k]
          /\ \A x \in Identifiers, T \in AnyLimitTypes :
                check_rate_limit_on(limits', x, T, now')[2]
                  = check_rate_limit_on(limits, x, T, now)[2]]_vars

\* cleanup_expired has just removed a record and kept another whose window
\* is over and whose block is still in force
C40_Witness ==
    /\ lastOp.op = "cleanup_expired"
    /\ lastOp.ret >= 1
    /\ \E k \in DOMAIN limits :
          /\ now - limits[k].first_attempt > LimitConfigs[k[1]].window_seconds
          /\ limits[k].blocked_until # NoBlock
          /\ now < limits[k].blocked_until

\* ======================================================= claims on JWTs
\* C30 as stated: verify_token of the access token created with (u, t, e, r,
\* p), before its expiry and with the same configuration, succeeds with
\* claims sub = u, tenant_id = t, email = e, roles = r, permissions = p and
\* token_type = access.
C30_RoundTripReturnsInputs ==
    [][(/\ issued.kind = "access"
        /\ now < issued.token.payload.exp
        /\ verify_token(issued.token))
       => /\ lastOp'.ret[1] = "ok"
          /\ lastOp'.ret[2].sub = issued.args.user_id
          /\ lastOp'.ret[2].tenant_id = issued.args.tenant_id
          /\ lastOp'.ret[2].email = issued.args.email
          /\ lastOp'.ret[2].roles = issued.args.roles
          /\ lastOp'.ret[2].permissions = issued.args.permissions
          /\ lastOp'.ret[2].token_type = "access"]_vars

\* C30, amended: the round trip succeeds before expiry and returns sub = u,
\* tenant_id = t, email = e and token_type = access; roles and permissions
\* are r and p when these are lists, and the empty list when they are None.
C30_RoundTripNormalisesLists ==
    [][(/\ issued.kind = "access"
        /\ now < issued.token.payload.exp
        /\ verify_token(issued.token))
       => /\ lastOp'.ret[1] = "ok"
          /\ lastOp'.ret[2].sub = issued.args.user_id
          /\ lastOp'.ret[2].tenant_id = issued.args.tenant_id
          /\ lastOp'.ret[2].email = issued.args.email
          /\ lastOp'.ret[2].roles
               = (IF issued.args.roles = NoList THEN <<>>
                  ELSE issued.args.roles)
          /\ lastOp'.ret[2].permissions
               = (IF issued.args.permissions = NoList THEN <<>>
                  ELSE issued.args.permissions)
          /\ lastOp'.ret[2].token_type = "access"]_vars

\* an access token that carries two roles has just been verified, some time
\* after it was created
C30_Witness ==
    /\ lastOp.op = "verify_token"
    /\ lastOp.ret[1] = "ok"
    /\ issued.kind = "access"
    /\ Len(issued.args.roles) = 2
    /\ issued.args.roles # NoList
    /\ lastOp.ret[2].roles = issued.args.roles
    /\ issued.token.payload.iat < now
    /\ now < issued.token.payload.exp

\* C31: verify_token of an access token at any time later than its issue
\* time plus access_token_expire_minutes raises ExpiredSignatureError, and
\* whatever call or passage of time follows, a token that verify_token
\* rejects as expired is still held unchanged and still rejected as expired.
C31_ExpiredStaysExpired ==
    [][\A token \in outstanding :
          token.payload.token_type = "access"
          => /\ (/\ now > token.payload.iat
                          + Minutes(access_token_expire_minutes)
                 /\ verify_token(token))
                => lastOp'.ret[1] = "ExpiredSignatureError"
             /\ verify_token_at(token, now)[1] = "ExpiredSignatureError"
                => /\ token \in outstanding'
                   /\ verify_token_at(token, now')[1]
                        = "ExpiredSignatureError"]_vars

\* the one token held is an access token created more than
\* access_token_expire_minutes ago, and verify_token has just rejected it as
\* expired
C31_Witness ==
    /\ lastOp.op = "verify_token"
    /\ lastOp.ret[1] = "ExpiredSignatureError"
    /\ Cardinality(outstanding) = 1
    /\ \A token \in outstanding :
          /\ token.payload.token_type = "access"
          /\ now > token.payload.iat + Minutes(access_token_expire_minutes)

\* C32: refresh_access_token of a held token that verify_token accepts raises
\* ValueError, creates no token and hands none out when the token is an
\* access token; when it is a refresh token the call returns a token that
\* verifies as an access token with the sub and tenant_id of the refresh
\* token.
C32_RefreshNeedsRefreshToken ==
    [][\A token \in outstanding :
          (/\ verify_token_at(token, now)[1] = "ok"
           /\ refresh_access_token(token))
          => IF token.payload.token_type = "access"
             THEN /\ lastOp'.ret[1] = "ValueError"
                  /\ issued' = issued
                  /\ outstanding' = outstanding
             ELSE /\ lastOp'.ret[1] = "ok"
                  /\ verify_token_at(lastOp'.ret[2], now')[1] = "ok"
                  /\ verify_token_at(lastOp'.ret[2], now')[2].token_type
                       = "access"
                  /\ lastOp'.ret[2].payload.sub = token.payload.sub
                  /\ lastOp'.ret[2].payload.tenant_id
                       = token.payload.tenant_id]_vars

\* an access token obtained earlier from a refresh token has just been
\* presented to refresh_access_token, which raised ValueError
C32_Witness ==
    /\ lastOp.op = "refresh_access_token"
    /\ lastOp.ret[1] = "ValueError"
    /\ \E token \in outstanding :
          /\ token.payload.token_type = "access"
          /\ token.payload.email = NoEmail
          /\ token.payload.iat > 0
          /\ verify_token_at(token, now)[1] = "ok"
    /\ \E token \in outstanding : token.payload.token_type = "refresh"

\* =============================================== claims on two-factor
\* the threads whose call reached verify_backup_code(u, code)
Callers(u, code) ==
    {t \in Threads : /\ pc[t] # "idle"
                     /\ frame[t].user = u
                     /\ frame[t].code = code
                     /\ frame[t].entered}

\* C1: when two or more callers verify the same unused backup code of a
\* user and all of them have finished, exactly one of them has returned true
\* and the code is no longer stored.
C1_BackupCodeConsumedOnce ==
    \A u \in TwoFactorUsers, code \in PresentedBackupCodes :
        (/\ Cardinality(Callers(u, code)) >= 2
         /\ \A t \in Callers(u, code) : pc[t] = "done"
         /\ \E t \in Callers(u, code) : frame[t].unused)
        => /\ Cardinality({t \in Callers(u, code) : frame[t].result = "True"}) = 1
           /\ hash_backup_code(code) \notin Range(configs[u].backup_codes)

\* both callers passed the membership test before either removed the code
C1_Witness ==
    \E u \in TwoFactorUsers, code \in PresentedBackupCodes :
        /\ Cardinality(Callers(u, code)) >= 2
        /\ \A t \in Callers(u, code) : pc[t] = "done" /\ frame[t].unused
        /\ \E t \in Callers(u, code) : frame[t].result = "ValueError"
        /\ \E t \in Callers(u, code) : frame[t].result = "True"

IssuedBackupCodes == {BackupCode(n) : n \in 1..(nextBackup - 1)}

StoredCodes(C, u) == IF u \in DOMAIN C THEN Range(C[u].backup_codes) ELSE {}

\* C2: a verify_backup_code or verify_2fa that consumes backup code c removes
\* exactly the hash of c and keeps the user's other codes; a code that is no
\* longer stored is refused by verify_backup_code and is never stored again.
C2_BackupCodeSingleUse ==
    [][\A u \in TwoFactorUsers :
         LET stored == StoredCodes(configs, u)
             kept == StoredCodes(configs', u)
             consumes(code) ==
                 /\ hash_backup_code(code) \in stored
                 /\ kept = stored \ {hash_backup_code(code)}
                 /\ Len(configs'[u].backup_codes)
                       = Len(configs[u].backup_codes) - 1
         IN  /\ configs' # configs
                   => \A hashed \in kept \ stored, code \in IssuedBackupCodes :
                         hashed # hash_backup_code(code)
             /\ lastOp'.op = "verify_backup_code"
                   => \A code \in PresentedBackupCodes :
                        verify_backup_code(u, code)
                          => /\ lastOp'.ret = TRUE => consumes(code)
                             /\ hash_backup_code(code) \notin stored
                                   => lastOp'.ret = FALSE
             /\ lastOp'.op = "verify_2fa"
                   => \A code \in PresentedBackupCodes, m \in Methods :
                        (verify_2fa(u, code, m) /\ lastOp'.ret = TRUE)
                          => consumes(code)]_vars

C2_Witness ==
    /\ lastOp.op = "verify_backup_code"
    /\ lastOp.ret = FALSE
    /\ \E u \in DOMAIN configs :
          /\ Len(configs[u].backup_codes) = backup_code_count - 1
          /\ hash_backup_code(BackupCode(nextBackup - backup_code_count))
                \notin Range(configs[u].backup_codes)

====
